---- MODULE Spec2Model ----
(***************************************************************************)
(* Checkout engine of the Telegram clothing store: the FSM dialogue of     *)
(* bot/handlers/user/order.py, the cart and order services and the         *)
(* validators, as a state machine.  One action per handler; a handler and  *)
(* every service call it makes is one atomic step.                         *)
(*                                                                         *)
(* Text is a sequence of one-character strings.  Money is an integer       *)
(* number of roubles.                                                      *)
(***************************************************************************)
EXTENDS Integers, Sequences, FiniteSets, TLC

(* ------------------------------------------------------------------ *)
(* Bounds of the model                                                  *)
(* ------------------------------------------------------------------ *)
MaxOrders == 2
MaxDialogueOrders == 1
MaxQty == 1
MaxCartItemId == 3

MaxDay == 2
MaxNumberedOrders == 3
MaxCartQty == 2
\* the largest quantity in stock that is set for a variant
MaxStock == 1

Users == {1, 2}
\* the user who acts; user 2 is a second customer whose cart already
\* holds a line
Buyers == {1}
ProductIds == {1, 2}

(* ------------------------------------------------------------------ *)
(* Python values                                                        *)
(* ------------------------------------------------------------------ *)
\* None where a text is expected (distinct from the empty text <<>>)
None == <<"None">>
\* None where a DeliveryType is expected
NoDelivery == "None"
\* None as variant_id
NoVariant == 0
\* None as discount_price
NoDiscount == -1
\* FSM state None (no checkout session)
NoState == "None"

COURIER == "courier"
PICKUP == "pickup"
STATUS_NEW == "new"
STATUS_PROCESSING == "processing"
STATUS_CONFIRMED == "confirmed"
STATUS_PREPARING == "preparing"
STATUS_READY == "ready"
STATUS_DELIVERING == "delivering"
STATUS_DELIVERED == "delivered"
STATUS_CANCELLED == "cancelled"

\* the members of OrderStatus
OrderStatus ==
    {STATUS_NEW, STATUS_PROCESSING, STATUS_CONFIRMED, STATUS_PREPARING,
     STATUS_READY, STATUS_DELIVERING, STATUS_DELIVERED, STATUS_CANCELLED}

waiting_for_name == "waiting_for_name"
waiting_for_phone == "waiting_for_phone"
waiting_for_delivery_type == "waiting_for_delivery_type"
waiting_for_address == "waiting_for_address"
waiting_for_comment == "waiting_for_comment"
waiting_for_confirmation == "waiting_for_confirmation"

OrderStates ==
    {waiting_for_name, waiting_for_phone, waiting_for_delivery_type,
     waiting_for_address, waiting_for_comment, waiting_for_confirmation}

(* ------------------------------------------------------------------ *)
(* Character classes of the regular expressions                         *)
(* ------------------------------------------------------------------ *)
AsciiDigits == {"0", "1", "2", "3", "4", "5", "6", "7", "8", "9"}
\* \d of a str pattern also matches the other Unicode decimal digits;
\* "U+0663" stands for ARABIC-INDIC DIGIT THREE
OtherDigits == {"U+0663"}
Whitespace == {" ", "\t", "\n"}
LatinLetters ==
    {"a", "b", "c", "d", "e", "f", "g", "h", "i", "j", "k", "l", "m",
     "n", "o", "p", "q", "r", "s", "t", "u", "v", "w", "x", "y", "z",
     "A", "B", "C", "D", "E", "F", "G", "H", "I", "J", "K", "L", "M",
     "N", "O", "P", "Q", "R", "S", "T", "U", "V", "W", "X", "Y", "Z"}
\* "U+0418" stands for CYRILLIC CAPITAL LETTER I, "U+0432" for SMALL VE
CyrillicLetters == {"U+0418", "U+0432"}

IsDigit(c) == c \in AsciiDigits \cup OtherDigits
IsSpace(c) == c \in Whitespace
IsNameChar(c) == c \in LatinLetters \cup CyrillicLetters \cup Whitespace \cup {"-"}

(* ------------------------------------------------------------------ *)
(* str.strip(), str.lstrip('+')                                         *)
(* ------------------------------------------------------------------ *)
\* index of the first character from i on that is not in chars (Len(s)+1 if none)
RECURSIVE skip_forward(_, _, _)
skip_forward(s, i, chars) ==
    IF i > Len(s) \/ s[i] \notin chars THEN i ELSE skip_forward(s, i + 1, chars)

\* index of the last character up to i that is not in chars (0 if none)
RECURSIVE skip_backward(_, _, _)
skip_backward(s, i, chars) ==
    IF i < 1 \/ s[i] \notin chars THEN i ELSE skip_backward(s, i - 1, chars)

strip(s) == SubSeq(s, skip_forward(s, 1, Whitespace), skip_backward(s, Len(s), Whitespace))

lstrip_plus(s) == SubSeq(s, skip_forward(s, 1, {"+"}), Len(s))

(* ------------------------------------------------------------------ *)
(* Validators (bot/utils/validators.py).  Each returns <<is_valid, r>>  *)
(* ------------------------------------------------------------------ *)
NameMinLen == 2
NameMaxLen == 100
AddressMinLen == 10
AddressMaxLen == 500
CommentMaxLen == 1000
PhoneDigits == 11

\* re.sub(r'[^\d+]', '', phone)
phone_cleaned(phone) == SelectSeq(phone, LAMBDA c : IsDigit(c) \/ c = "+")

\* a test that would let any cleaned text through
phone_pattern_any(cleaned) == TRUE

\* re.match(r'^\+?\d+$', cleaned)
phone_pattern(cleaned) ==
    LET body == IF Len(cleaned) > 0 /\ cleaned[1] = "+" THEN Tail(cleaned) ELSE cleaned
    IN Len(body) >= 1 /\ \A i \in 1..Len(body) : IsDigit(body[i])

\* a normalisation that would leave a number without the leading 7 as it is
phone_normalized_keeps_first(cleaned) ==
    LET d0 == lstrip_plus(cleaned)
    IN IF Len(d0) > 0 /\ d0[1] = "8" THEN <<"7">> \o Tail(d0) ELSE d0

phone_normalized(cleaned) ==
    LET d0 == lstrip_plus(cleaned)
        d1 == IF Len(d0) > 0 /\ d0[1] = "8" THEN <<"7">> \o Tail(d0) ELSE d0
    IN IF Len(d1) > 0 /\ d1[1] = "7" THEN d1 ELSE <<"7">> \o d1

\* a format that would end the last group one digit early
phone_formatted_short(d) ==
    <<"+", d[1], " ", "(">> \o SubSeq(d, 2, 4) \o <<")", " ">> \o SubSeq(d, 5, 7)
        \o <<"-">> \o SubSeq(d, 8, 9) \o <<"-">> \o SubSeq(d, 10, 10)

phone_formatted(d) ==
    <<"+", d[1], " ", "(">> \o SubSeq(d, 2, 4) \o <<")", " ">> \o SubSeq(d, 5, 7)
        \o <<"-">> \o SubSeq(d, 8, 9) \o <<"-">> \o SubSeq(d, 10, 11)

validate_phone(phone) ==
    LET cleaned == phone_cleaned(phone)
        digits_only == phone_normalized(cleaned)
    IN IF ~phone_pattern(cleaned) THEN <<FALSE, "digits_only">>
       ELSE IF Len(digits_only) # PhoneDigits THEN <<FALSE, "digit_count">>
       ELSE IF digits_only[2] = "0" \/ digits_only[3] = "0" THEN <<FALSE, "operator_code">>
       ELSE <<TRUE, phone_formatted(digits_only)>>

validate_name(raw) ==
    LET name == strip(raw)
    IN IF Len(name) < NameMinLen THEN <<FALSE, "too_short">>
       ELSE IF Len(name) > NameMaxLen THEN <<FALSE, "too_long">>
       ELSE IF ~(\A i \in 1..Len(name) : IsNameChar(name[i])) THEN <<FALSE, "characters">>
       ELSE <<TRUE, "">>

validate_address(raw) ==
    LET address == strip(raw)
    IN IF Len(address) < AddressMinLen THEN <<FALSE, "too_short">>
       ELSE IF Len(address) > AddressMaxLen THEN <<FALSE, "too_long">>
       ELSE <<TRUE, "">>

validate_comment(raw) ==
    LET comment == strip(raw)
    IN IF Len(comment) > CommentMaxLen THEN <<FALSE, "too_long">>
       ELSE <<TRUE, "">>

(* ------------------------------------------------------------------ *)
(* Inputs a user can send                                               *)
(* ------------------------------------------------------------------ *)
RECURSIVE Repeat(_, _)
Repeat(c, n) ==
    IF n = 0 THEN <<>>
    ELSE IF n % 2 = 0 THEN LET half == Repeat(c, n \div 2) IN half \o half
    ELSE Append(Repeat(c, n - 1), c)

\* texts one character longer than the validators allow
LongName == Repeat("a", NameMaxLen + 1)
LongAddress == Repeat("a", AddressMaxLen + 1)
LongComment == Repeat("a", CommentMaxLen + 1)

\* a message without text (photo, sticker): message.text is None
NoText == <<"NoText">>

NameInputs ==
    { <<" ", "I", "v", "a", "n">>,
      <<"I">>,
      <<"I", "4">>,
      LongName }

PhoneInputs ==
    { <<"8", "9", "2", "6", "1", "2", "3", "4", "5", "6", "7">>,
      <<"+", "7", " ", "(", "9", "2", "6", ")", " ", "1", "2", "3", "-", "4", "5", "-", "6", "7">>,
      <<"1", "2", "3">>,
      <<"8", "9", "0", "0", "1", "2", "3", "4", "5", "6", "7">>,
      <<"7", "+", "9">> }

\* how a number sent to validate_phone begins, and the ten or so characters
\* that follow: plain, punctuated, with an operator code that has a zero, a
\* digit short, a digit long, and in digits that are not ASCII
PhonePrefixes == { <<>>, <<"+">>, <<"7">>, <<"8">>, <<"+", "7">>, <<"+", "8">>, <<"+", "+">> }

PhoneBodies ==
    { <<"9", "2", "6", "1", "2", "3", "4", "5", "6", "7">>,
      <<" ", "(", "9", "2", "6", ")", " ", "1", "2", "3", "-", "4", "5", "-", "6", "7">>,
      <<"9", "0", "6", "1", "2", "3", "4", "5", "6", "7">>,
      <<"9", "2", "6", "1", "2", "3", "4", "5", "6">>,
      <<"9", "2", "6", "1", "2", "3", "4", "5", "6", "7", "8">>,
      <<"7", "2", "6", "1", "2", "3", "4", "5", "6">>,
      <<"9", "2", "6", "+", "1", "2", "3", "4", "5", "6", "7">>,
      Repeat("U+0663", 10),
      <<"a", "b", "c">> }

PhoneSamples == {prefix \o body : prefix \in PhonePrefixes, body \in PhoneBodies}

AddressInputs ==
    { <<"L", "e", "n", "i", "n", "a", " ", "1", "0", "-", "5">>,
      <<"L", "e", "n", "i", "n", "a", " ", "1">>,
      LongAddress }

CommentInputs ==
    { <<"c", "a", "l", "l">>,
      <<" ", " ">>,
      LongComment }

\* what the admin sends as a price: a number, and zero
PriceTexts == { <<"4", "0", "0">>, <<"0">> }

\* what the admin sends as a discount price: below the base price, equal to
\* it, and "-"
DiscountTexts == { <<"4", "5", "0">>, <<"5", "0", "0">>, <<"-">> }

\* variant_id of a cart line: None or the id of a ProductVariant
VariantIds == {NoVariant, 1}

\* callback data that start with "delivery:": the two buttons of the
\* keyboard and one value no button carries
DeliveryData == {"delivery:courier", "delivery:pickup", "delivery:post"}

CallbackData ==
    {"checkout", "checkout:confirm", "checkout:edit", "checkout:cancel",
     "checkout:back", "checkout:skip_comment"} \cup DeliveryData

(* ------------------------------------------------------------------ *)
(* State                                                                *)
(* ------------------------------------------------------------------ *)
VARIABLES
    fsm_state,     \* MemoryStorage: user -> state tag or NoState
    fsm_data,      \* MemoryStorage: user -> stored fields
    cart_items,    \* table cart_items
    products,      \* table products
    orders,        \* table orders
    order_items,   \* table order_items
    today,         \* the day datetime.now() falls on
    last,          \* the update the order router got last and what became of it
    txn,           \* slot -> the service call under way in it (create_order, add_to_cart)
    variants       \* table product_variants: id -> product and quantity in stock

vars == <<fsm_state, fsm_data, cart_items, products, orders, order_items, today, last, txn, variants>>

\* a key that was never stored reads as None through data.get(key)
EmptyData ==
    [customer_name |-> None, customer_phone |-> None, delivery_type |-> NoDelivery,
     delivery_address |-> None, comment |-> None]

\* no call of create_order under way
NoCall == [pc |-> "idle", cart |-> {}, items |-> {}, order |-> <<>>]

\* the record of an update: who sent it, the callback data or the message
\* text, the handler that took it ("none": no filter matched), how the handler
\* ended, and the sender's session as it was before
Session(u) == [state |-> fsm_state[u], data |-> fsm_data[u]]

CallbackEvent(u, d, handler, result) ==
    [user |-> u, kind |-> "callback", data |-> d, text |-> <<>>,
     handler |-> handler, result |-> result, before |-> Session(u)]

MessageEvent(u, text, handler, result) ==
    [user |-> u, kind |-> "message", data |-> "", text |-> text,
     handler |-> handler, result |-> result, before |-> Session(u)]

Init ==
    /\ fsm_state = [u \in Users |-> NoState]
    /\ fsm_data = [u \in Users |-> EmptyData]
    /\ cart_items = {[id |-> 1, user_id |-> 2, product_id |-> 2,
                      variant_id |-> NoVariant, quantity |-> 1]}
    /\ products = [p \in ProductIds |->
                     IF p = 1 THEN [price |-> 500, discount_price |-> NoDiscount, is_active |-> TRUE]
                              ELSE [price |-> 1500, discount_price |-> NoDiscount, is_active |-> TRUE]]
    /\ orders = {}
    /\ order_items = {}
    /\ today = 1
    /\ last = [user |-> 0, kind |-> "none", data |-> "", text |-> <<>>,
               handler |-> "none", result |-> "none",
               before |-> [state |-> NoState, data |-> EmptyData]]
    /\ txn = [u \in Users |-> NoCall]
    /\ variants = [v \in VariantIds \ {NoVariant} |-> [product_id |-> 1, quantity |-> 1]]

(* ------------------------------------------------------------------ *)
(* Tables: helpers                                                      *)
(* ------------------------------------------------------------------ *)
Max(S) == CHOOSE x \in S : \A y \in S : y <= x

\* the rowid a table without AUTOINCREMENT gives to a new row
next_id(rows) == IF rows = {} THEN 1 ELSE Max({r.id : r \in rows}) + 1

\* Product.effective_price
effective_price(product) ==
    IF product.discount_price # NoDiscount /\ product.discount_price # 0
    THEN product.discount_price
    ELSE product.price

\* CartItem.product resolves (the relationship is not None)
has_product(item) == item.product_id \in DOMAIN products

line_subtotal(item) == effective_price(products[item.product_id]) * item.quantity

\* total += price * item.quantity over the given cart lines
RECURSIVE sum_subtotals(_)
sum_subtotals(lines) ==
    IF lines = {} THEN 0
    ELSE LET x == CHOOSE y \in lines : TRUE
         IN line_subtotal(x) + sum_subtotals(lines \ {x})

(* ------------------------------------------------------------------ *)
(* Cart service (bot/services/cart_service.py)                          *)
(* ------------------------------------------------------------------ *)
\* a read that would return the cart as it was before its newest line came
get_cart_items_without_newest(user_id) ==
    {c \in cart_items : /\ c.user_id = user_id
                        /\ \A x \in cart_items : x.user_id = user_id => c.id <= x.id}

get_cart_items(user_id) == {c \in cart_items : c.user_id = user_id}

\* a total that would count the lines of inactive products too
get_cart_total_all_lines(user_id) ==
    sum_subtotals({c \in get_cart_items(user_id) : has_product(c)})

get_cart_total(user_id) ==
    sum_subtotals({c \in get_cart_items(user_id) :
                       has_product(c) /\ products[c.product_id].is_active})

\* an add_to_cart that would insert a row without looking for the triple
cart_add_to_cart_always_inserts(user_id, product_id, variant_id, quantity) ==
    cart_items \cup {[id |-> next_id(cart_items), user_id |-> user_id,
                      product_id |-> product_id, variant_id |-> variant_id,
                      quantity |-> quantity]}

\* the table after cart_service.add_to_cart
cart_add_to_cart(user_id, product_id, variant_id, quantity) ==
    LET found == {c \in cart_items : /\ c.user_id = user_id
                                     /\ c.product_id = product_id
                                     /\ c.variant_id = variant_id}
    IN IF found # {}
       THEN {IF c \in found THEN [c EXCEPT !.quantity = @ + quantity] ELSE c : c \in cart_items}
       ELSE cart_items \cup {[id |-> next_id(cart_items), user_id |-> user_id,
                               product_id |-> product_id, variant_id |-> variant_id,
                               quantity |-> quantity]}

\* a lookup that would not ask whose the line is
get_cart_item_by_id_any_user(cart_item_id, user_id) ==
    {c \in cart_items : c.id = cart_item_id}

\* get_cart_item_by_id: the rows with that id that belong to the user
get_cart_item_by_id(cart_item_id, user_id) ==
    {c \in cart_items : c.id = cart_item_id /\ c.user_id = user_id}

\* an update that would store whatever quantity it is given
cart_update_cart_item_quantity_stores_any(cart_item_id, user_id, quantity) ==
    {IF c \in get_cart_item_by_id(cart_item_id, user_id)
     THEN [c EXCEPT !.quantity = quantity] ELSE c : c \in cart_items}

\* the table after cart_service.update_cart_item_quantity
cart_update_cart_item_quantity(cart_item_id, user_id, quantity) ==
    LET found == get_cart_item_by_id(cart_item_id, user_id)
    IN IF found = {} THEN cart_items
       ELSE IF quantity <= 0 THEN cart_items \ found
       ELSE {IF c \in found THEN [c EXCEPT !.quantity = quantity] ELSE c : c \in cart_items}

\* the table after cart_service.remove_cart_item
cart_remove_cart_item(cart_item_id, user_id) ==
    cart_items \ get_cart_item_by_id(cart_item_id, user_id)

\* the table after cart_service.clear_cart
cart_clear(user_id) == {c \in cart_items : c.user_id # user_id}

(* ------------------------------------------------------------------ *)
(* Order service (bot/services/order_service.py)                        *)
(* ------------------------------------------------------------------ *)
\* the decimal digits of a natural number
RECURSIVE decimal_digits(_)
decimal_digits(n) ==
    IF n < 10 THEN <<ToString(n)>>
    ELSE Append(decimal_digits(n \div 10), ToString(n % 10))

\* f"{n:03d}": the digits, padded with zeros on the left to three at least
format_03d(n) ==
    IF Len(decimal_digits(n)) >= 3 THEN decimal_digits(n)
    ELSE Repeat("0", 3 - Len(decimal_digits(n))) \o decimal_digits(n)

\* a number that would count the orders of every day
generate_order_number_all_days ==
    [day |-> today, counter |-> format_03d(Cardinality(orders) + 1)]

\* ORD-<day>-<counter>: the day of the prefix and the counter that follows
\* it; the orders LIKE the prefix are those numbered on that day
generate_order_number ==
    [day |-> today,
     counter |-> format_03d(Cardinality({o \in orders : o.order_number.day = today}) + 1)]

\* a table that would accept a number it already holds
order_number_is_unique_unchecked(order_number) == TRUE

\* unique=True on Order.order_number: no stored order has the number
order_number_is_unique(order_number) ==
    \A o \in orders : o.order_number # order_number

\* points at which the database may refuse to persist
Faults == {"none", "flush", "commit"}

\* order lines that would take the base price of the product
order_items_data_base_price(cart, order_id) ==
    {[order_id |-> order_id, product_id |-> c.product_id, variant_id |-> c.variant_id,
      quantity |-> c.quantity,
      price_at_purchase |-> products[c.product_id].price,
      subtotal |-> line_subtotal(c)] : c \in {x \in cart : has_product(x)}}

\* the rows create_order builds from the cart it read
order_items_data(cart, order_id) ==
    {[order_id |-> order_id, product_id |-> c.product_id, variant_id |-> c.variant_id,
      quantity |-> c.quantity,
      price_at_purchase |-> effective_price(products[c.product_id]),
      subtotal |-> line_subtotal(c)] : c \in {x \in cart : has_product(x)}}

\* the three tables a transaction of create_order writes
tables == [orders |-> orders, order_items |-> order_items, cart_items |-> cart_items]

\* session.add(order) and the flush that assigns the order its id
flushed(order) == [tables EXCEPT !.orders = @ \cup {order}]

\* a commit that would leave the cart rows in place
committed_keeps_cart(cart, order) ==
    [orders |-> orders \cup {order},
     order_items |-> order_items \cup order_items_data(cart, order.id),
     cart_items |-> cart_items]

\* the order's lines added, the cart rows it read deleted, and the commit
committed(cart, order) ==
    [orders |-> orders \cup {order},
     order_items |-> order_items \cup order_items_data(cart, order.id),
     cart_items |-> cart_items \ cart]

\* a middleware that would keep what the failed transaction has pending
rollback_skipped(pending) == pending

\* DatabaseMiddleware on an exception of the handler: session.rollback()
\* discards what the transaction has pending, the tables stay as stored
rollback(pending) == tables

\* a service that would not look at the cart before building the order
cart_is_empty_never(cart) == FALSE

\* "if not cart_items": no line in the cart the service read
cart_is_empty(cart) == cart = {}

\* create_order: what it returns and the tables it leaves behind
create_order(user_id, customer_name, customer_phone, delivery_type, delivery_address, comment, fault) ==
    LET cart == get_cart_items(user_id)
        total_amount == sum_subtotals({c \in cart : has_product(c)})
        order_number == generate_order_number
        order == [id |-> next_id(orders), user_id |-> user_id,
                  order_number |-> order_number, total_amount |-> total_amount,
                  status |-> STATUS_NEW, customer_name |-> customer_name,
                  customer_phone |-> customer_phone, delivery_type |-> delivery_type,
                  delivery_address |-> delivery_address, comment |-> comment]
        unique == order_number_is_unique(order_number)
    IN IF cart_is_empty(cart)
       THEN [outcome |-> "none", order |-> <<>>, db |-> tables]
       ELSE IF fault = "flush" \/ ~unique
       THEN [outcome |-> "raised", order |-> <<>>, db |-> rollback(flushed(order))]
       ELSE IF fault = "commit"
       THEN [outcome |-> "raised", order |-> <<>>, db |-> rollback(committed(cart, order))]
       ELSE [outcome |-> "created", order |-> <<order>>, db |-> committed(cart, order)]

\* what a customer who chose pickup and skipped the comment orders with
PickupOrder ==
    [customer_name |-> <<"I", "v", "a", "n">>,
     customer_phone |-> phone_formatted(<<"7", "9", "2", "6", "1", "2", "3", "4", "5", "6", "7">>),
     delivery_type |-> PICKUP, delivery_address |-> None, comment |-> None]

\* the result of create_order for a pickup order of the user
pickup_order_result(user_id, fault) ==
    create_order(user_id, PickupOrder.customer_name, PickupOrder.customer_phone,
                 PickupOrder.delivery_type, PickupOrder.delivery_address,
                 PickupOrder.comment, fault)

\* a call that would take what was ordered out of the stock of the variants
call_create_order_takes_stock(user_id, fault) ==
    /\ orders' = pickup_order_result(user_id, fault).db.orders
    /\ order_items' = pickup_order_result(user_id, fault).db.order_items
    /\ cart_items' = pickup_order_result(user_id, fault).db.cart_items
    /\ variants' = [v \in DOMAIN variants |->
                      IF \E i \in order_items' \ order_items : i.variant_id = v
                      THEN [variants[v] EXCEPT !.quantity = 0]
                      ELSE variants[v]]
    /\ UNCHANGED <<fsm_state, fsm_data, products, today, last, txn>>

\* a call of create_order, with the rollback of the middleware when it raises
call_create_order(user_id, fault) ==
    /\ orders' = pickup_order_result(user_id, fault).db.orders
    /\ order_items' = pickup_order_result(user_id, fault).db.order_items
    /\ cart_items' = pickup_order_result(user_id, fault).db.cart_items
    /\ UNCHANGED <<fsm_state, fsm_data, products, today, last, txn, variants>>

\* update_order_status: the order with the id, when there is one, takes the
\* new status, whatever status it has
update_order_status(order_id, new_status) ==
    {IF o.id = order_id THEN [o EXCEPT !.status = new_status] ELSE o : o \in orders}

\* cancel_order: update_order_status with CANCELLED
cancel_order(order_id) == update_order_status(order_id, STATUS_CANCELLED)

\* a call of update_order_status
call_update_order_status(order_id, new_status) ==
    /\ orders' = update_order_status(order_id, new_status)
    /\ UNCHANGED <<fsm_state, fsm_data, cart_items, products, order_items, today, last, txn, variants>>

\* a call of cancel_order
call_cancel_order(order_id) ==
    /\ orders' = cancel_order(order_id)
    /\ UNCHANGED <<fsm_state, fsm_data, cart_items, products, order_items, today, last, txn, variants>>

\* create_order up to the order number: the cart is read, the lines are
\* priced and the orders of the day are counted; every await that follows
\* lets the call of another update run
create_order_read(user_id) ==
    /\ txn[user_id].pc = "idle"
    /\ LET cart == get_cart_items(user_id)
           order == [id |-> 0, user_id |-> user_id,
                     order_number |-> generate_order_number,
                     total_amount |-> sum_subtotals({c \in cart : has_product(c)}),
                     status |-> STATUS_NEW, customer_name |-> PickupOrder.customer_name,
                     customer_phone |-> PickupOrder.customer_phone,
                     delivery_type |-> PickupOrder.delivery_type,
                     delivery_address |-> PickupOrder.delivery_address,
                     comment |-> PickupOrder.comment]
       IN IF cart_is_empty(cart)
          THEN UNCHANGED txn
          ELSE txn' = [txn EXCEPT ![user_id] =
                          [pc |-> "read", cart |-> cart,
                           items |-> order_items_data(cart, 0), order |-> <<order>>]]
    /\ UNCHANGED <<fsm_state, fsm_data, cart_items, products, orders, order_items, today, last, variants>>

\* session.add(order) and session.flush(): the INSERT takes the write lock of
\* the database, so it waits while another call holds a flushed order; a
\* number the table already holds raises, and the middleware rolls back
create_order_flush(user_id) ==
    /\ txn[user_id].pc = "read"
    /\ \A other \in Users \ {user_id} : txn[other].pc # "flushed"
    /\ LET order == txn[user_id].order[1]
       IN IF order_number_is_unique(order.order_number)
          THEN txn' = [txn EXCEPT ![user_id].pc = "flushed",
                                  ![user_id].order = <<[order EXCEPT !.id = next_id(orders)]>>]
          ELSE txn' = [txn EXCEPT ![user_id] = NoCall]
    /\ UNCHANGED <<fsm_state, fsm_data, cart_items, products, orders, order_items, today, last, variants>>

\* the order's lines are added, the cart rows the call read are deleted, and
\* session.commit() stores all of it
create_order_commit(user_id) ==
    /\ txn[user_id].pc = "flushed"
    /\ LET order == txn[user_id].order[1]
       IN /\ orders' = orders \cup {order}
          /\ order_items' = order_items \cup
                 {[item EXCEPT !.order_id = order.id] : item \in txn[user_id].items}
          /\ cart_items' = {c \in cart_items :
                               c.id \notin {x.id : x \in txn[user_id].cart}}
    /\ txn' = [txn EXCEPT ![user_id] = NoCall]
    /\ UNCHANGED <<fsm_state, fsm_data, products, today, last, variants>>

(* ------------------------------------------------------------------ *)
(* Checkout dialogue (bot/handlers/user/order.py)                       *)
(* ------------------------------------------------------------------ *)
db == <<cart_items, products, orders, order_items, today, txn, variants>>

\* the filters the order router registers its callback handlers with
start_checkout_filter(u, d) == d = "checkout"
\* a delivery filter that would not look at the state
process_delivery_type_filter_any_state(u, d) == d \in DeliveryData
process_delivery_type_filter(u, d) ==
    fsm_state[u] = waiting_for_delivery_type /\ d \in DeliveryData
\* a skip filter that would not look at the state
skip_comment_filter_any_state(u, d) == d = "checkout:skip_comment"
skip_comment_filter(u, d) ==
    fsm_state[u] = waiting_for_comment /\ d = "checkout:skip_comment"
\* a confirm filter that would not look at the state
confirm_order_filter_any_state(u, d) == d = "checkout:confirm"
confirm_order_filter(u, d) ==
    fsm_state[u] = waiting_for_confirmation /\ d = "checkout:confirm"
edit_order_data_filter(u, d) ==
    fsm_state[u] = waiting_for_confirmation /\ d = "checkout:edit"
cancel_checkout_filter(u, d) == d = "checkout:cancel"
back_to_phone_filter(u, d) ==
    fsm_state[u] = waiting_for_delivery_type /\ d = "checkout:back"
back_to_delivery_or_address_filter(u, d) ==
    fsm_state[u] = waiting_for_comment /\ d = "checkout:back"

\* a start that would not look at the cart
start_checkout_unchecked(u) ==
    /\ start_checkout_filter(u, "checkout")
    /\ fsm_state' = [fsm_state EXCEPT ![u] = waiting_for_name]
    /\ last' = CallbackEvent(u, "checkout", "start_checkout", "ok")
    /\ UNCHANGED <<fsm_data, db>>

start_checkout(u) ==
    /\ start_checkout_filter(u, "checkout")
    /\ IF get_cart_items(u) = {}
       THEN /\ fsm_state' = fsm_state
            /\ last' = CallbackEvent(u, "checkout", "start_checkout", "empty_cart")
       ELSE /\ fsm_state' = [fsm_state EXCEPT ![u] = waiting_for_name]
            /\ last' = CallbackEvent(u, "checkout", "start_checkout", "ok")
    /\ UNCHANGED <<fsm_data, db>>

process_name(u, text) ==
    /\ fsm_state[u] = waiting_for_name
    /\ IF text = NoText
       THEN /\ last' = MessageEvent(u, text, "process_name", "error")
            /\ UNCHANGED <<fsm_state, fsm_data>>
       ELSE LET name == strip(text)
                v == validate_name(name)
            IN IF ~v[1]
               THEN /\ last' = MessageEvent(u, text, "process_name", v[2])
                    /\ UNCHANGED <<fsm_state, fsm_data>>
               ELSE /\ fsm_data' = [fsm_data EXCEPT ![u].customer_name = name]
                    /\ fsm_state' = [fsm_state EXCEPT ![u] = waiting_for_phone]
                    /\ last' = MessageEvent(u, text, "process_name", "ok")
    /\ UNCHANGED db

process_phone(u, text) ==
    /\ fsm_state[u] = waiting_for_phone
    /\ IF text = NoText
       THEN /\ last' = MessageEvent(u, text, "process_phone", "error")
            /\ UNCHANGED <<fsm_state, fsm_data>>
       ELSE LET phone == strip(text)
                v == validate_phone(phone)
            IN IF ~v[1]
               THEN /\ last' = MessageEvent(u, text, "process_phone", v[2])
                    /\ UNCHANGED <<fsm_state, fsm_data>>
               ELSE /\ fsm_data' = [fsm_data EXCEPT ![u].customer_phone = v[2]]
                    /\ fsm_state' = [fsm_state EXCEPT ![u] = waiting_for_delivery_type]
                    /\ last' = MessageEvent(u, text, "process_phone", "ok")
    /\ UNCHANGED db

\* a choice of pickup that would leave the stored address
process_delivery_type_keeps_address(u, d) ==
    /\ process_delivery_type_filter(u, d)
    /\ IF d = "delivery:courier"
       THEN /\ fsm_data' = [fsm_data EXCEPT ![u].delivery_type = COURIER]
            /\ fsm_state' = [fsm_state EXCEPT ![u] = waiting_for_address]
       ELSE /\ fsm_data' = [fsm_data EXCEPT ![u].delivery_type = PICKUP]
            /\ fsm_state' = [fsm_state EXCEPT ![u] = waiting_for_comment]
    /\ last' = CallbackEvent(u, d, "process_delivery_type", "ok")
    /\ UNCHANGED db

process_delivery_type(u, d) ==
    /\ process_delivery_type_filter(u, d)
    /\ IF d = "delivery:courier"
       THEN /\ fsm_data' = [fsm_data EXCEPT ![u].delivery_type = COURIER]
            /\ fsm_state' = [fsm_state EXCEPT ![u] = waiting_for_address]
       ELSE /\ fsm_data' = [fsm_data EXCEPT ![u].delivery_type = PICKUP,
                                            ![u].delivery_address = None]
            /\ fsm_state' = [fsm_state EXCEPT ![u] = waiting_for_comment]
    /\ last' = CallbackEvent(u, d, "process_delivery_type", "ok")
    /\ UNCHANGED db

\* an address step that would take any text
process_address_unvalidated(u, text) ==
    /\ fsm_state[u] = waiting_for_address
    /\ IF text = NoText
       THEN /\ last' = MessageEvent(u, text, "process_address", "error")
            /\ UNCHANGED <<fsm_state, fsm_data>>
       ELSE /\ fsm_data' = [fsm_data EXCEPT ![u].delivery_address = strip(text)]
            /\ fsm_state' = [fsm_state EXCEPT ![u] = waiting_for_comment]
            /\ last' = MessageEvent(u, text, "process_address", "ok")
    /\ UNCHANGED db

\* an address step that would store the text before validating it
process_address_stores_first(u, text) ==
    /\ fsm_state[u] = waiting_for_address
    /\ IF text = NoText
       THEN /\ last' = MessageEvent(u, text, "process_address", "error")
            /\ UNCHANGED <<fsm_state, fsm_data>>
       ELSE LET address == strip(text)
                v == validate_address(address)
            IN /\ fsm_data' = [fsm_data EXCEPT ![u].delivery_address = address]
               /\ IF ~v[1]
                  THEN /\ last' = MessageEvent(u, text, "process_address", v[2])
                       /\ UNCHANGED fsm_state
                  ELSE /\ fsm_state' = [fsm_state EXCEPT ![u] = waiting_for_comment]
                       /\ last' = MessageEvent(u, text, "process_address", "ok")
    /\ UNCHANGED db

process_address(u, text) ==
    /\ fsm_state[u] = waiting_for_address
    /\ IF text = NoText
       THEN /\ last' = MessageEvent(u, text, "process_address", "error")
            /\ UNCHANGED <<fsm_state, fsm_data>>
       ELSE LET address == strip(text)
                v == validate_address(address)
            IN IF ~v[1]
               THEN /\ last' = MessageEvent(u, text, "process_address", v[2])
                    /\ UNCHANGED <<fsm_state, fsm_data>>
               ELSE /\ fsm_data' = [fsm_data EXCEPT ![u].delivery_address = address]
                    /\ fsm_state' = [fsm_state EXCEPT ![u] = waiting_for_comment]
                    /\ last' = MessageEvent(u, text, "process_address", "ok")
    /\ UNCHANGED db

\* show_confirmation reads the cart for display and sets the state
show_confirmation(u) == [fsm_state EXCEPT ![u] = waiting_for_confirmation]

\* a skip that would leave the comment of an earlier pass in the session
skip_comment_keeps_comment(u) ==
    /\ skip_comment_filter(u, "checkout:skip_comment")
    /\ fsm_state' = show_confirmation(u)
    /\ last' = CallbackEvent(u, "checkout:skip_comment", "skip_comment", "ok")
    /\ UNCHANGED <<fsm_data, db>>

skip_comment(u) ==
    /\ skip_comment_filter(u, "checkout:skip_comment")
    /\ fsm_data' = [fsm_data EXCEPT ![u].comment = None]
    /\ fsm_state' = show_confirmation(u)
    /\ last' = CallbackEvent(u, "checkout:skip_comment", "skip_comment", "ok")
    /\ UNCHANGED db

process_comment(u, text) ==
    /\ fsm_state[u] = waiting_for_comment
    /\ IF text = NoText
       THEN /\ last' = MessageEvent(u, text, "process_comment", "error")
            /\ UNCHANGED <<fsm_state, fsm_data>>
       ELSE LET comment == strip(text)
                v == validate_comment(comment)
            IN IF ~v[1]
               THEN /\ last' = MessageEvent(u, text, "process_comment", v[2])
                    /\ UNCHANGED <<fsm_state, fsm_data>>
               ELSE /\ fsm_data' = [fsm_data EXCEPT ![u].comment = comment]
                    /\ fsm_state' = show_confirmation(u)
                    /\ last' = MessageEvent(u, text, "process_comment", "ok")
    /\ UNCHANGED db

\* a confirm that would not hand the stored comment to create_order
confirm_order_without_comment(u, fault) ==
    /\ confirm_order_filter(u, "checkout:confirm")
    /\ LET data == fsm_data[u]
           r == create_order(u, data.customer_name, data.customer_phone,
                             data.delivery_type, data.delivery_address,
                             None, fault)
       IN /\ orders' = r.db.orders
          /\ order_items' = r.db.order_items
          /\ cart_items' = r.db.cart_items
          /\ IF r.outcome = "raised"
             THEN UNCHANGED <<fsm_state, fsm_data>>
             ELSE /\ fsm_state' = [fsm_state EXCEPT ![u] = NoState]
                  /\ fsm_data' = [fsm_data EXCEPT ![u] = EmptyData]
          /\ last' = CallbackEvent(u, "checkout:confirm", "confirm_order", r.outcome)
    /\ UNCHANGED <<products, today, txn, variants>>

\* confirm_order inside DatabaseMiddleware: an exception of create_order
\* leaves the handler before state.clear() and the middleware rolls back
\* a confirm that would keep the session when create_order returns None
confirm_order_keeps_session(u, fault) ==
    /\ confirm_order_filter(u, "checkout:confirm")
    /\ LET data == fsm_data[u]
           r == create_order(u, data.customer_name, data.customer_phone,
                             data.delivery_type, data.delivery_address,
                             data.comment, fault)
       IN /\ orders' = r.db.orders
          /\ order_items' = r.db.order_items
          /\ cart_items' = r.db.cart_items
          /\ IF r.outcome \in {"raised", "none"}
             THEN UNCHANGED <<fsm_state, fsm_data>>
             ELSE /\ fsm_state' = [fsm_state EXCEPT ![u] = NoState]
                  /\ fsm_data' = [fsm_data EXCEPT ![u] = EmptyData]
          /\ last' = CallbackEvent(u, "checkout:confirm", "confirm_order", r.outcome)
    /\ UNCHANGED <<products, today, txn, variants>>

confirm_order(u, fault) ==
    /\ confirm_order_filter(u, "checkout:confirm")
    /\ LET data == fsm_data[u]
           r == create_order(u, data.customer_name, data.customer_phone,
                             data.delivery_type, data.delivery_address,
                             data.comment, fault)
       IN /\ orders' = r.db.orders
          /\ order_items' = r.db.order_items
          /\ cart_items' = r.db.cart_items
          /\ IF r.outcome = "raised"
             THEN UNCHANGED <<fsm_state, fsm_data>>
             ELSE /\ fsm_state' = [fsm_state EXCEPT ![u] = NoState]
                  /\ fsm_data' = [fsm_data EXCEPT ![u] = EmptyData]
          /\ last' = CallbackEvent(u, "checkout:confirm", "confirm_order", r.outcome)
    /\ UNCHANGED <<products, today, txn, variants>>

\* an edit that would go back to the comment step only
edit_order_data_to_comment(u) ==
    /\ edit_order_data_filter(u, "checkout:edit")
    /\ fsm_state' = [fsm_state EXCEPT ![u] = waiting_for_comment]
    /\ last' = CallbackEvent(u, "checkout:edit", "edit_order_data", "ok")
    /\ UNCHANGED <<fsm_data, db>>

edit_order_data(u) ==
    /\ edit_order_data_filter(u, "checkout:edit")
    /\ fsm_state' = [fsm_state EXCEPT ![u] = waiting_for_name]
    /\ last' = CallbackEvent(u, "checkout:edit", "edit_order_data", "ok")
    /\ UNCHANGED <<fsm_data, db>>

\* a cancel that would reset the state and keep the data
cancel_checkout_keeps_data(u) ==
    /\ cancel_checkout_filter(u, "checkout:cancel")
    /\ fsm_state' = [fsm_state EXCEPT ![u] = NoState]
    /\ last' = CallbackEvent(u, "checkout:cancel", "cancel_checkout", "ok")
    /\ UNCHANGED <<fsm_data, db>>

cancel_checkout(u) ==
    /\ cancel_checkout_filter(u, "checkout:cancel")
    /\ fsm_state' = [fsm_state EXCEPT ![u] = NoState]
    /\ fsm_data' = [fsm_data EXCEPT ![u] = EmptyData]
    /\ last' = CallbackEvent(u, "checkout:cancel", "cancel_checkout", "ok")
    /\ UNCHANGED db

back_to_phone(u) ==
    /\ back_to_phone_filter(u, "checkout:back")
    /\ fsm_state' = [fsm_state EXCEPT ![u] = waiting_for_phone]
    /\ last' = CallbackEvent(u, "checkout:back", "back_to_phone", "ok")
    /\ UNCHANGED <<fsm_data, db>>

\* a back that would always ask for the delivery type again
back_to_delivery_or_address_to_delivery(u) ==
    /\ back_to_delivery_or_address_filter(u, "checkout:back")
    /\ fsm_state' = [fsm_state EXCEPT ![u] = waiting_for_delivery_type]
    /\ last' = CallbackEvent(u, "checkout:back", "back_to_delivery_or_address", "ok")
    /\ UNCHANGED <<fsm_data, db>>

back_to_delivery_or_address(u) ==
    /\ back_to_delivery_or_address_filter(u, "checkout:back")
    /\ IF fsm_data[u].delivery_type = COURIER
       THEN fsm_state' = [fsm_state EXCEPT ![u] = waiting_for_address]
       ELSE fsm_state' = [fsm_state EXCEPT ![u] = waiting_for_delivery_type]
    /\ last' = CallbackEvent(u, "checkout:back", "back_to_delivery_or_address", "ok")
    /\ UNCHANGED <<fsm_data, db>>

\* a callback query none of the router's filters accepts is not handled
unhandled_callback(u, d) ==
    /\ ~start_checkout_filter(u, d)
    /\ ~process_delivery_type_filter(u, d)
    /\ ~skip_comment_filter(u, d)
    /\ ~confirm_order_filter(u, d)
    /\ ~edit_order_data_filter(u, d)
    /\ ~cancel_checkout_filter(u, d)
    /\ ~back_to_phone_filter(u, d)
    /\ ~back_to_delivery_or_address_filter(u, d)
    /\ last' = CallbackEvent(u, d, "none", "unhandled")
    /\ UNCHANGED <<fsm_state, fsm_data, db>>

\* a message in a state no message handler of the router is registered for
unhandled_message(u, text) ==
    /\ fsm_state[u] \notin {waiting_for_name, waiting_for_phone,
                              waiting_for_address, waiting_for_comment}
    /\ last' = MessageEvent(u, text, "none", "unhandled")
    /\ UNCHANGED <<fsm_state, fsm_data, db>>

(* ------------------------------------------------------------------ *)
(* Cart handlers (bot/handlers/user/product.py, cart.py)                *)
(* ------------------------------------------------------------------ *)
\* get_variant_by_attributes: the variants of the product with the size and
\* the colour asked for; a variant id stands for its size and colour
get_variant_by_attributes(product_id, variant_id) ==
    {v \in DOMAIN variants : v = variant_id /\ variants[v].product_id = product_id}

\* add_to_cart:<product_id> and add_to_cart:<product_id>:<size>:<colour>;
\* NoVariant stands for callback data without size and colour
add_to_cart(u, product_id, variant_id) ==
    /\ IF product_id \notin DOMAIN products \/ ~products[product_id].is_active
       THEN UNCHANGED cart_items
       ELSE IF variant_id # NoVariant /\
               \/ get_variant_by_attributes(product_id, variant_id) = {}
               \/ variants[variant_id].quantity <= 0
       THEN UNCHANGED cart_items
       ELSE cart_items' = cart_add_to_cart(u, product_id, variant_id, 1)
    /\ UNCHANGED <<fsm_state, fsm_data, products, orders, order_items, today, last, txn, variants>>

\* cart:increase:<cart_item_id>
increase_quantity(u, cart_item_id) ==
    /\ IF get_cart_item_by_id(cart_item_id, u) = {}
       THEN UNCHANGED cart_items
       ELSE LET cart_item == CHOOSE c \in get_cart_item_by_id(cart_item_id, u) : TRUE
                new_quantity == cart_item.quantity + 1
            IN IF /\ cart_item.variant_id # NoVariant
                  /\ variants[cart_item.variant_id].quantity < new_quantity
               THEN UNCHANGED cart_items
               ELSE cart_items' = cart_update_cart_item_quantity(cart_item_id, u, new_quantity)
    /\ UNCHANGED <<fsm_state, fsm_data, products, orders, order_items, today, last, txn, variants>>

\* cart:decrease:<cart_item_id>
decrease_quantity(u, cart_item_id) ==
    /\ IF get_cart_item_by_id(cart_item_id, u) = {}
       THEN UNCHANGED cart_items
       ELSE LET cart_item == CHOOSE c \in get_cart_item_by_id(cart_item_id, u) : TRUE
                new_quantity == cart_item.quantity - 1
            IN IF new_quantity <= 0
               THEN cart_items' = cart_remove_cart_item(cart_item_id, u)
               ELSE cart_items' = cart_update_cart_item_quantity(cart_item_id, u, new_quantity)
    /\ UNCHANGED <<fsm_state, fsm_data, products, orders, order_items, today, last, txn, variants>>

\* update_product_variant(session, variant_id, quantity=quantity)
update_product_variant(variant_id, quantity) ==
    IF variant_id \in DOMAIN variants
    THEN [variants EXCEPT ![variant_id].quantity = quantity]
    ELSE variants

\* a call of update_product_variant that sets the quantity in stock
call_update_product_variant(variant_id, quantity) ==
    /\ variants' = update_product_variant(variant_id, quantity)
    /\ UNCHANGED <<fsm_state, fsm_data, cart_items, products, orders, order_items, today, last, txn>>

clear_cart(u) ==
    /\ cart_items' = cart_clear(u)
    /\ UNCHANGED <<fsm_state, fsm_data, products, orders, order_items, today, last, txn, variants>>

(* ------------------------------------------------------------------ *)
(* Catalog administration (bot/services/product_service.py)             *)
(* ------------------------------------------------------------------ *)
toggle_product_status(product_id) ==
    /\ product_id \in DOMAIN products
    /\ products' = [products EXCEPT ![product_id].is_active = ~@]
    /\ UNCHANGED <<fsm_state, fsm_data, cart_items, orders, order_items, today, last, txn, variants>>

\* delete_product: session.delete(product) takes with it the rows of the
\* relationships with cascade "all, delete-orphan": the product's variants,
\* cart lines and order lines, and the cart and order lines of the variants
delete_product(product_id) ==
    /\ product_id \in DOMAIN products
    /\ LET gone == {v \in DOMAIN variants : variants[v].product_id = product_id}
       IN /\ products' = [p \in DOMAIN products \ {product_id} |-> products[p]]
          /\ variants' = [v \in DOMAIN variants \ gone |-> variants[v]]
          /\ cart_items' = {c \in cart_items :
                               c.product_id # product_id /\ c.variant_id \notin gone}
          /\ order_items' = {i \in order_items :
                                i.product_id # product_id /\ i.variant_id \notin gone}
    /\ UNCHANGED <<fsm_state, fsm_data, orders, today, last, txn>>

\* delete_product_variant: the variant goes with its cart and order lines
delete_product_variant(variant_id) ==
    /\ variant_id \in DOMAIN variants
    /\ variants' = [v \in DOMAIN variants \ {variant_id} |-> variants[v]]
    /\ cart_items' = {c \in cart_items : c.variant_id # variant_id}
    /\ order_items' = {i \in order_items : i.variant_id # variant_id}
    /\ UNCHANGED <<fsm_state, fsm_data, products, orders, today, last, txn>>

\* Decimal(text) of a text of ASCII digits; other texts are not numbers here
RECURSIVE decimal_value(_)
decimal_value(text) ==
    IF text = <<>> THEN 0
    ELSE 10 * decimal_value(SubSeq(text, 1, Len(text) - 1))
         + (CHOOSE n \in 0..9 : ToString(n) = text[Len(text)])

is_decimal(text) == text # <<>> /\ \A i \in 1..Len(text) : text[i] \in AsciiDigits

\* the table after product_service.update_product(product_id, key=value):
\* a value of None is skipped
update_product(product_id, key, value) ==
    IF product_id \notin DOMAIN products \/ value = NoDiscount
    THEN products
    ELSE [products EXCEPT ![product_id][key] = value]

\* a price edit that would also rewrite the lines of the orders placed
message_product_edit_price_reprices(product_id, text) ==
    /\ IF ~is_decimal(strip(text)) \/ decimal_value(strip(text)) <= 0
       THEN UNCHANGED <<products, order_items>>
       ELSE /\ products' = update_product(product_id, "price", decimal_value(strip(text)))
            /\ order_items' =
                  {IF i.product_id = product_id
                   THEN [i EXCEPT !.price_at_purchase = decimal_value(strip(text)),
                                  !.subtotal = decimal_value(strip(text)) * i.quantity]
                   ELSE i : i \in order_items}
    /\ UNCHANGED <<fsm_state, fsm_data, cart_items, orders, today, last, txn, variants>>

\* the admin sends the new price of the product being edited
message_product_edit_price(product_id, text) ==
    /\ IF ~is_decimal(strip(text)) \/ decimal_value(strip(text)) <= 0
       THEN UNCHANGED products
       ELSE products' = update_product(product_id, "price", decimal_value(strip(text)))
    /\ UNCHANGED <<fsm_state, fsm_data, cart_items, orders, order_items, today, last, txn, variants>>

\* the admin sends the new discount price, or "-" to remove the discount
message_product_edit_discount(product_id, text) ==
    /\ IF product_id \notin DOMAIN products
       THEN UNCHANGED products
       ELSE IF strip(text) = <<"-">>
       THEN products' = update_product(product_id, "discount_price", NoDiscount)
       ELSE IF \/ ~is_decimal(strip(text))
               \/ decimal_value(strip(text)) <= 0
               \/ decimal_value(strip(text)) >= products[product_id].price
       THEN UNCHANGED products
       ELSE products' = update_product(product_id, "discount_price",
                                        decimal_value(strip(text)))
    /\ UNCHANGED <<fsm_state, fsm_data, cart_items, orders, order_items, today, last, txn, variants>>

(* ------------------------------------------------------------------ *)
(* The clock                                                            *)
(* ------------------------------------------------------------------ *)
\* datetime.now() passes midnight
next_day ==
    /\ today' = today + 1
    /\ UNCHANGED <<fsm_state, fsm_data, cart_items, products, orders, order_items, last, txn, variants>>

(* ------------------------------------------------------------------ *)
(* Calls of the cart service, one at a time                             *)
(* ------------------------------------------------------------------ *)
call_add_to_cart(user_id, product_id, variant_id, quantity) ==
    /\ cart_items' = cart_add_to_cart(user_id, product_id, variant_id, quantity)
    /\ UNCHANGED <<fsm_state, fsm_data, products, orders, order_items, today, last, txn, variants>>

call_update_cart_item_quantity(cart_item_id, user_id, quantity) ==
    /\ cart_items' = cart_update_cart_item_quantity(cart_item_id, user_id, quantity)
    /\ UNCHANGED <<fsm_state, fsm_data, products, orders, order_items, today, last, txn, variants>>

call_remove_cart_item(cart_item_id, user_id) ==
    /\ cart_items' = cart_remove_cart_item(cart_item_id, user_id)
    /\ UNCHANGED <<fsm_state, fsm_data, products, orders, order_items, today, last, txn, variants>>

(* ------------------------------------------------------------------ *)
(* Specifications                                                       *)
(* ------------------------------------------------------------------ *)
(* ------------------------------------------------------------------ *)
(* confirm_order as a task: start_polling handles every update in a     *)
(* task of its own, MemoryStorage is used without events isolation, and  *)
(* each task has its own database session; a task gives way to the       *)
(* others at every await on the database                                 *)
(* ------------------------------------------------------------------ *)
\* the tasks that may be under way at once: txn holds one call for each
Tasks == Users

\* the filter passes, the session's data are read and create_order selects
\* the cart of the user; with an empty cart the handler ends at once
confirm_order_select(task, u) ==
    /\ confirm_order_filter(u, "checkout:confirm")
    /\ txn[task].pc = "idle"
    /\ LET data == fsm_data[u]
           cart == get_cart_items(u)
           order == [id |-> 0, user_id |-> u,
                     order_number |-> None,
                     total_amount |-> sum_subtotals({c \in cart : has_product(c)}),
                     status |-> STATUS_NEW, customer_name |-> data.customer_name,
                     customer_phone |-> data.customer_phone,
                     delivery_type |-> data.delivery_type,
                     delivery_address |-> data.delivery_address,
                     comment |-> data.comment]
       IN IF cart_is_empty(cart)
          THEN /\ fsm_state' = [fsm_state EXCEPT ![u] = NoState]
               /\ fsm_data' = [fsm_data EXCEPT ![u] = EmptyData]
               /\ last' = CallbackEvent(u, "checkout:confirm", "confirm_order", "none")
               /\ UNCHANGED txn
          ELSE /\ txn' = [txn EXCEPT ![task] =
                            [pc |-> "selected", cart |-> cart,
                             items |-> order_items_data(cart, 0), order |-> <<order>>]]
               /\ UNCHANGED <<fsm_state, fsm_data, last>>
    /\ UNCHANGED <<cart_items, products, orders, order_items, today, variants>>

\* generate_order_number: the orders of the day are counted
confirm_order_number(task) ==
    /\ txn[task].pc = "selected"
    /\ txn' = [txn EXCEPT ![task].pc = "numbered",
                          ![task].order = <<[txn[task].order[1] EXCEPT
                                               !.order_number = generate_order_number]>>]
    /\ UNCHANGED <<fsm_state, fsm_data, cart_items, products, orders, order_items, today, last, variants>>

\* session.add(order) and session.flush(): the INSERT waits for the write
\* lock; a number the table already holds raises, the middleware rolls
\* back and the handler ends without clearing the session
confirm_order_flush(task) ==
    /\ txn[task].pc = "numbered"
    /\ \A other \in Tasks \ {task} : txn[other].pc # "flushed"
    /\ LET order == txn[task].order[1]
       IN IF order_number_is_unique(order.order_number)
          THEN /\ txn' = [txn EXCEPT ![task].pc = "flushed",
                                     ![task].order = <<[order EXCEPT !.id = next_id(orders)]>>]
               /\ UNCHANGED last
          ELSE /\ txn' = [txn EXCEPT ![task] = NoCall]
               /\ last' = CallbackEvent(order.user_id, "checkout:confirm", "confirm_order", "raised")
    /\ UNCHANGED <<fsm_state, fsm_data, cart_items, products, orders, order_items, today, variants>>

\* the order's lines are added and the cart rows the task selected are
\* deleted by their ids (a DELETE that matches no row only warns);
\* session.commit() stores all of it and the handler clears the session
confirm_order_commit(task) ==
    /\ txn[task].pc = "flushed"
    /\ LET order == txn[task].order[1]
       IN /\ orders' = orders \cup {order}
          /\ order_items' = order_items \cup
                 {[item EXCEPT !.order_id = order.id] : item \in txn[task].items}
          /\ cart_items' = {c \in cart_items :
                               c.id \notin {x.id : x \in txn[task].cart}}
          /\ fsm_state' = [fsm_state EXCEPT ![order.user_id] = NoState]
          /\ fsm_data' = [fsm_data EXCEPT ![order.user_id] = EmptyData]
          /\ last' = CallbackEvent(order.user_id, "checkout:confirm", "confirm_order", "created")
    /\ txn' = [txn EXCEPT ![task] = NoCall]
    /\ UNCHANGED <<products, today, variants>>

\* cart_service.add_to_cart as a task, up to its await: the SELECT of the
\* line of the triple; scalar_one_or_none raises when it finds two rows
add_to_cart_select(task, user_id, product_id, variant_id, quantity) ==
    /\ txn[task].pc = "idle"
    /\ LET found == {c \in cart_items : /\ c.user_id = user_id
                                        /\ c.product_id = product_id
                                        /\ c.variant_id = variant_id}
       IN IF Cardinality(found) > 1
          THEN UNCHANGED txn
          ELSE txn' = [txn EXCEPT ![task] =
                          [pc |-> "looked", cart |-> found, items |-> {},
                           order |-> <<[user_id |-> user_id, product_id |-> product_id,
                                        variant_id |-> variant_id, quantity |-> quantity]>>]]
    /\ UNCHANGED <<fsm_state, fsm_data, cart_items, products, orders, order_items, today, last, variants>>

\* the rest of the call: the quantity the task read is raised and written
\* to the row, or a new row is added; session.commit() stores it (an UPDATE
\* of a row that is gone raises)
add_to_cart_commit(task) ==
    /\ txn[task].pc = "looked"
    /\ LET call == txn[task].order[1]
           found == txn[task].cart
       IN IF found = {}
          THEN cart_items' = cart_items \cup
                   {[id |-> next_id(cart_items), user_id |-> call.user_id,
                     product_id |-> call.product_id, variant_id |-> call.variant_id,
                     quantity |-> call.quantity]}
          ELSE cart_items' =
                   {IF c.id \in {x.id : x \in found}
                    THEN [c EXCEPT !.quantity =
                             (CHOOSE x \in found : TRUE).quantity + call.quantity]
                    ELSE c : c \in cart_items}
    /\ txn' = [txn EXCEPT ![task] = NoCall]
    /\ UNCHANGED <<fsm_state, fsm_data, products, orders, order_items, today, last, variants>>

\* the bounds: quantities stay within MaxQty, row ids within MaxCartItemId,
\* the orders table within max
QtyBound(max) == \A c \in cart_items' : c.quantity <= max /\ c.id <= MaxCartItemId
OrdersBound(max) == Cardinality(orders) < max

\* Spec: one buyer goes through the whole dialogue with every kind of
\* input, over a cart of one product
Next ==
    \/ \E u \in Buyers : start_checkout(u)
    \/ \E u \in Buyers, text \in NameInputs \cup {NoText} : process_name(u, text)
    \/ \E u \in Buyers, text \in PhoneInputs \cup {NoText} : process_phone(u, text)
    \/ \E u \in Buyers, d \in DeliveryData : process_delivery_type(u, d)
    \/ \E u \in Buyers, text \in AddressInputs \cup {NoText} : process_address(u, text)
    \/ \E u \in Buyers : skip_comment(u)
    \/ \E u \in Buyers, text \in CommentInputs \cup {NoText} : process_comment(u, text)
    \/ \E u \in Buyers, fault \in Faults : OrdersBound(MaxDialogueOrders) /\ confirm_order(u, fault)
    \/ \E u \in Buyers : edit_order_data(u)
    \/ \E u \in Buyers : cancel_checkout(u)
    \/ \E u \in Buyers : back_to_phone(u)
    \/ \E u \in Buyers : back_to_delivery_or_address(u)
    \/ \E u \in Buyers, d \in CallbackData : unhandled_callback(u, d)
    \/ \E u \in Buyers, text \in {NoText} : unhandled_message(u, text)
    \/ \E u \in Buyers : add_to_cart(u, 1, NoVariant) /\ QtyBound(MaxQty)
    \/ \E u \in Buyers : clear_cart(u)

Spec == Init /\ [][Next]_vars

\* SpecOrders: the buyer takes the pickup path with one input per step,
\* over carts of both products that both users and the catalog change
NextOrders ==
    \/ \E u \in Buyers : start_checkout(u)
    \/ \E u \in Buyers : process_name(u, <<"I", "v", "a", "n">>)
    \/ \E u \in Buyers :
          process_phone(u, <<"8", "9", "2", "6", "1", "2", "3", "4", "5", "6", "7">>)
    \/ \E u \in Buyers : process_delivery_type(u, "delivery:pickup")
    \/ \E u \in Buyers : skip_comment(u)
    \/ \E u \in Buyers, fault \in Faults : OrdersBound(MaxOrders) /\ confirm_order(u, fault)
    \/ \E u \in Buyers, p \in ProductIds : add_to_cart(u, p, NoVariant) /\ QtyBound(MaxQty)
    \/ \E u \in Buyers : clear_cart(u)
    \/ \E p \in ProductIds : toggle_product_status(p)

SpecOrders == Init /\ [][NextOrders]_vars

\* SpecCart: the cart service is called one call at a time for the carts of
\* both users, while the admin edits price, discount and status of product 1
CartBound == \A c \in cart_items' : c.quantity <= MaxCartQty /\ c.id <= MaxCartItemId

NextCart ==
    \/ \E u \in Buyers, p \in ProductIds, v \in VariantIds, q \in {1, 2} :
          call_add_to_cart(u, p, v, q) /\ CartBound
    \/ \E id \in 1..MaxCartItemId, u \in Users, q \in {0, 1, 2} :
          call_update_cart_item_quantity(id, u, q) /\ CartBound
    \/ \E id \in 1..MaxCartItemId, u \in Users : call_remove_cart_item(id, u)
    \/ \E u \in Users : clear_cart(u)
    \/ toggle_product_status(1)
    \/ \E text \in PriceTexts : message_product_edit_price(1, text)
    \/ \E text \in DiscountTexts : message_product_edit_discount(1, text)

SpecCart == Init /\ [][NextCart]_vars

\* SpecPrices: orders are created from carts of product 1, with and without
\* variant, while the admin edits price, discount and status of the product
NextPrices ==
    \/ \E u \in Buyers, v \in VariantIds :
          call_add_to_cart(u, 1, v, 1) /\ QtyBound(MaxQty)
    \/ \E u \in Buyers, fault \in Faults :
          OrdersBound(MaxOrders) /\ call_create_order(u, fault)
    \/ toggle_product_status(1)
    \/ \E text \in PriceTexts : message_product_edit_price(1, text)
    \/ \E text \in DiscountTexts : message_product_edit_discount(1, text)

SpecPrices == Init /\ [][NextPrices]_vars

\* SpecNumbers: both users order one after another while days pass, user 1
\* product 1 and user 2 product 2
NextNumbers ==
    \/ \E u \in Users : call_add_to_cart(u, u, NoVariant, 1) /\ QtyBound(MaxQty)
    \/ \E u \in Users, fault \in Faults :
          OrdersBound(MaxNumberedOrders) /\ call_create_order(u, fault)
    \/ today < MaxDay /\ next_day

SpecNumbers == Init /\ [][NextNumbers]_vars

\* create_order calls of two users whose steps interleave at the awaits
NextRace ==
    \/ \E u \in Users : call_add_to_cart(u, u, NoVariant, 1) /\ QtyBound(MaxQty)
    \/ \E u \in Users : OrdersBound(MaxOrders) /\ create_order_read(u)
    \/ \E u \in Users : create_order_flush(u)
    \/ \E u \in Users : create_order_commit(u)
    \/ today < MaxDay /\ next_day

SpecRace == Init /\ [][NextRace]_vars

\* orders are created and their status is set by update_order_status and
\* cancel_order; the ids asked for include one that no order has
NextStatus ==
    \/ \E u \in Users : call_add_to_cart(u, u, NoVariant, 1) /\ QtyBound(MaxQty)
    \/ \E u \in Users : OrdersBound(MaxDialogueOrders) /\ call_create_order(u, "none")
    \/ \E order_id \in 1..(MaxDialogueOrders + 1), new_status \in OrderStatus :
          call_update_order_status(order_id, new_status)
    \/ \E order_id \in 1..(MaxDialogueOrders + 1) : call_cancel_order(order_id)
    \/ today < MaxDay /\ next_day

SpecStatus == Init /\ [][NextStatus]_vars

\* the steps of the dialogue up to the phone number, with the numbers of
\* PhoneSamples sent in waiting_for_phone
NextPhone ==
    \/ \E u \in Buyers : start_checkout(u)
    \/ \E u \in Buyers, text \in NameInputs : process_name(u, text)
    \/ \E u \in Buyers, text \in PhoneSamples : process_phone(u, text)
    \/ \E u \in Buyers : cancel_checkout(u)
    \/ \E u \in Buyers : add_to_cart(u, 1, NoVariant) /\ QtyBound(MaxQty)

SpecPhone == Init /\ [][NextPhone]_vars

\* the buyer's cart of product 1 with and without its variant, the stock of
\* the variant set from outside, and orders created from the cart
NextStock ==
    \/ \E u \in Buyers, v \in VariantIds : add_to_cart(u, 1, v) /\ CartBound
    \/ \E u \in Buyers, id \in 1..MaxCartItemId : increase_quantity(u, id) /\ CartBound
    \/ \E u \in Buyers, id \in 1..MaxCartItemId : decrease_quantity(u, id)
    \/ \E v \in VariantIds \ {NoVariant}, quantity \in 0..MaxStock :
          call_update_product_variant(v, quantity)
    \/ \E u \in Buyers : OrdersBound(MaxDialogueOrders) /\ call_create_order(u, "none")

SpecStock == Init /\ [][NextStock]_vars

\* the quantity argument of cart_service.add_to_cart is an int that is not
\* validated: below zero, zero, and above
AddQuantities == {0 - 1, 0, 1}

LinesBound ==
    \A c \in cart_items' :
        c.quantity >= 0 - 1 /\ c.quantity <= MaxQty /\ c.id <= MaxCartItemId

\* the calls of the cart service with any quantity, and orders created from
\* the cart
NextLines ==
    \/ \E u \in Buyers, v \in VariantIds, q \in AddQuantities :
          call_add_to_cart(u, 1, v, q) /\ LinesBound
    \/ \E id \in 1..MaxCartItemId, u \in Buyers, q \in AddQuantities :
          call_update_cart_item_quantity(id, u, q) /\ LinesBound
    \/ \E id \in 1..MaxCartItemId, u \in Buyers : call_remove_cart_item(id, u)
    \/ \E u \in Users : clear_cart(u)
    \/ \E u \in Buyers : OrdersBound(MaxDialogueOrders) /\ call_create_order(u, "none")

SpecLines == Init /\ [][NextLines]_vars

\* the buyer fills the cart with product 1, goes through the dialogue once,
\* and changes the cart only while the confirmation is on display: adds
\* either product, takes one off a line; then confirms
NextConfirm ==
    \/ \E u \in Buyers :
          fsm_state[u] = NoState /\ add_to_cart(u, 1, NoVariant) /\ QtyBound(MaxQty)
    \/ \E u \in Buyers : fsm_state[u] = NoState /\ start_checkout(u)
    \/ \E u \in Buyers : process_name(u, <<"I", "v", "a", "n">>)
    \/ \E u \in Buyers :
          process_phone(u, <<"8", "9", "2", "6", "1", "2", "3", "4", "5", "6", "7">>)
    \/ \E u \in Buyers, d \in DeliveryData : process_delivery_type(u, d)
    \/ \E u \in Buyers, text \in AddressInputs : process_address(u, text)
    \/ \E u \in Buyers : skip_comment(u)
    \/ \E u \in Buyers, p \in ProductIds :
          fsm_state[u] = waiting_for_confirmation /\ add_to_cart(u, p, NoVariant) /\ CartBound
    \/ \E u \in Buyers, id \in 1..MaxCartItemId :
          fsm_state[u] = waiting_for_confirmation /\ decrease_quantity(u, id)
    \/ \E u \in Buyers : OrdersBound(MaxDialogueOrders) /\ confirm_order(u, "none")

SpecConfirm == Init /\ [][NextConfirm]_vars

\* SpecTwice: the buyer fills a cart, takes the pickup path to the
\* confirmation and presses confirm more than once; the presses are handled
\* as tasks whose steps interleave, and nothing else is sent meanwhile
NoTask == \A task \in Tasks : txn[task].pc = "idle"

NextTwice ==
    \/ \E u \in Buyers, p \in ProductIds :
          NoTask /\ add_to_cart(u, p, NoVariant) /\ QtyBound(MaxQty)
    \/ \E u \in Buyers : NoTask /\ start_checkout(u)
    \/ \E u \in Buyers : NoTask /\ process_name(u, <<"I", "v", "a", "n">>)
    \/ \E u \in Buyers :
          NoTask /\ process_phone(u, <<"8", "9", "2", "6", "1", "2", "3", "4", "5", "6", "7">>)
    \/ \E u \in Buyers : NoTask /\ process_delivery_type(u, "delivery:pickup")
    \/ \E u \in Buyers : NoTask /\ skip_comment(u)
    \/ \E task \in Tasks, u \in Buyers : OrdersBound(MaxOrders) /\ confirm_order_select(task, u)
    \/ \E task \in Tasks : confirm_order_number(task)
    \/ \E task \in Tasks : confirm_order_flush(task)
    \/ \E task \in Tasks : confirm_order_commit(task)
    \/ NoTask /\ today < MaxDay /\ next_day

SpecTwice == Init /\ [][NextTwice]_vars

\* SpecDuring: create_order calls split at their awaits, and calls of
\* add_to_cart and update_cart_item_quantity that run in between; a call
\* that writes waits while a create_order call holds the write lock
NoWriter == \A u \in Users : txn[u].pc # "flushed"

NextDuring ==
    \/ \E u \in Buyers, p \in ProductIds :
          NoWriter /\ call_add_to_cart(u, p, NoVariant, 1) /\ CartBound
    \/ \E id \in 1..MaxCartItemId, u \in Buyers, q \in {0, 1, 2} :
          NoWriter /\ call_update_cart_item_quantity(id, u, q) /\ CartBound
    \/ \E u \in Users : OrdersBound(MaxOrders) /\ create_order_read(u)
    \/ \E u \in Users : create_order_flush(u)
    \/ \E u \in Users : create_order_commit(u)

SpecDuring == Init /\ [][NextDuring]_vars

\* SpecAdds: add_to_cart calls of the buyer handled as tasks that
\* interleave at the await of the lookup; the cart is cleared in between
NextAdds ==
    \/ \E task \in Tasks, u \in Buyers, p \in ProductIds :
          add_to_cart_select(task, u, p, NoVariant, 1)
    \/ \E task \in Tasks : add_to_cart_commit(task) /\ CartBound
    \/ \E u \in Buyers : NoTask /\ clear_cart(u)

SpecAdds == Init /\ [][NextAdds]_vars

\* SpecCatalog: orders are created from carts of both products, with and
\* without variant, and the admin then edits the price of a product,
\* switches it off or deletes it or its variant
NextCatalog ==
    \/ \E u \in Buyers, p \in ProductIds :
          p \in DOMAIN products /\ call_add_to_cart(u, p, NoVariant, 1) /\ QtyBound(MaxQty)
    \/ \E u \in Buyers, v \in DOMAIN variants :
          call_add_to_cart(u, variants[v].product_id, v, 1) /\ QtyBound(MaxQty)
    \/ \E u \in Users : OrdersBound(MaxOrders) /\ call_create_order(u, "none")
    \/ \E p \in ProductIds : toggle_product_status(p)
    \/ \E text \in PriceTexts : message_product_edit_price(1, text)
    \/ \E p \in ProductIds : delete_product(p)
    \/ \E v \in VariantIds \ {NoVariant} : delete_product_variant(v)

SpecCatalog == Init /\ [][NextCatalog]_vars

\* a day on which orders were taken before: how many of them there are
BusyCounts == {8, 998}

\* the n-th order of day 1, as create_order stored it, and its one line
EarlierOrder(n) ==
    [id |-> n, user_id |-> 2,
     order_number |-> [day |-> 1, counter |-> format_03d(n)],
     total_amount |-> 1500, status |-> STATUS_NEW,
     customer_name |-> PickupOrder.customer_name,
     customer_phone |-> PickupOrder.customer_phone,
     delivery_type |-> PickupOrder.delivery_type,
     delivery_address |-> PickupOrder.delivery_address,
     comment |-> PickupOrder.comment]

EarlierItem(n) ==
    [order_id |-> n, product_id |-> 2, variant_id |-> NoVariant, quantity |-> 1,
     price_at_purchase |-> 1500, subtotal |-> 1500]

\* the shop on a day that has seen some number of orders already
InitBusy ==
    /\ fsm_state = [u \in Users |-> NoState]
    /\ fsm_data = [u \in Users |-> EmptyData]
    /\ cart_items = {[id |-> 1, user_id |-> 2, product_id |-> 2,
                      variant_id |-> NoVariant, quantity |-> 1]}
    /\ products = [p \in ProductIds |->
                     IF p = 1 THEN [price |-> 500, discount_price |-> NoDiscount, is_active |-> TRUE]
                              ELSE [price |-> 1500, discount_price |-> NoDiscount, is_active |-> TRUE]]
    /\ \E n \in BusyCounts :
          /\ orders = {EarlierOrder(i) : i \in 1..n}
          /\ order_items = {EarlierItem(i) : i \in 1..n}
    /\ today = 1
    /\ last = [user |-> 0, kind |-> "none", data |-> "", text |-> <<>>,
               handler |-> "none", result |-> "none",
               before |-> [state |-> NoState, data |-> EmptyData]]
    /\ txn = [u \in Users |-> NoCall]
    /\ variants = [v \in VariantIds \ {NoVariant} |-> [product_id |-> 1, quantity |-> 1]]

NewOrdersBound(max) ==
    \E n \in BusyCounts : Cardinality(orders) >= n /\ Cardinality(orders) < n + max

\* orders are created one after another on such a day and on the next
NextBusy ==
    \/ \E u \in Users : call_add_to_cart(u, u, NoVariant, 1) /\ QtyBound(MaxQty)
    \/ \E u \in Users, fault \in Faults :
          NewOrdersBound(MaxOrders) /\ call_create_order(u, fault)
    \/ today < MaxDay /\ next_day

SpecBusy == InitBusy /\ [][NextBusy]_vars

(* ------------------------------------------------------------------ *)
(* Properties                                                           *)
(* ------------------------------------------------------------------ *)
\* the step is the update recorded in last', taken by handler h
Handled(h) == last' # last /\ last'.handler = h

\* C1: an order is created only by the confirm callback of a session in
\* waiting_for_confirmation; a confirm callback in any other state, or with
\* no session, creates no order and no order line and leaves the carts and
\* the session as they were
C1_OrderOnlyByConfirmInConfirmation ==
    [][ /\ (orders' # orders \/ order_items' # order_items) =>
              /\ Handled("confirm_order")
              /\ last'.data = "checkout:confirm"
              /\ fsm_state[last'.user] = waiting_for_confirmation
        /\ ( /\ last' # last
             /\ last'.data = "checkout:confirm"
             /\ fsm_state[last'.user] # waiting_for_confirmation ) =>
              UNCHANGED <<orders, order_items, cart_items, fsm_state, fsm_data>>
      ]_vars

\* C1 witness: confirm was pressed in waiting_for_phone over a non-empty cart
\* and no handler took it
C1_Witness ==
    /\ last.data = "checkout:confirm"
    /\ last.handler = "none"
    /\ last.before.state = waiting_for_phone
    /\ get_cart_items(last.user) # {}
    /\ orders = {}

\* C2: when create_order succeeds over a non-empty cart, the user's cart has
\* no line left and the orders table is the old one plus exactly one order of
\* that user; the other carts are as they were
C2_CreatedOrderEmptiesCart ==
    [][ (Handled("confirm_order") /\ last'.result = "created") =>
          /\ get_cart_items(last'.user) # {}
          /\ {c \in cart_items' : c.user_id = last'.user} = {}
          /\ {c \in cart_items' : c.user_id # last'.user}
               = {c \in cart_items : c.user_id # last'.user}
          /\ orders \subseteq orders'
          /\ Cardinality(orders' \ orders) = 1
          /\ \A o \in orders' \ orders : o.user_id = last'.user
      ]_vars

\* C2 witness: the second order was just created, the buyer's cart is empty
\* and the other user's cart still holds its line
C2_Witness ==
    /\ last.handler = "confirm_order"
    /\ last.result = "created"
    /\ Cardinality(orders) = 2
    /\ get_cart_items(last.user) = {}
    /\ get_cart_items(2) # {}

\* C3: the total_amount of a created order equals what get_cart_total
\* returned for the cart right before, whatever products are active
C3_TotalEqualsCartTotal ==
    [][ (Handled("confirm_order") /\ last'.result = "created") =>
          \A o \in orders' \ orders : o.total_amount = get_cart_total(last'.user)
      ]_vars

\* C4: create_order over an empty cart returns None and changes nothing: no
\* order, no order line, the next order number as before, every cart as before
C4_EmptyCartCreatesNothing ==
    [][ (Handled("confirm_order") /\ get_cart_items(last'.user) = {}) =>
          /\ last'.result = "none"
          /\ UNCHANGED <<orders, order_items, cart_items>>
          /\ generate_order_number' = generate_order_number
      ]_vars

\* C4 witness: confirm found the cart emptied after an earlier order
C4_Witness ==
    /\ last.handler = "confirm_order"
    /\ last.result = "none"
    /\ orders # {}
    /\ get_cart_items(2) # {}

\* C5: a failure to persist inside create_order, at the flush or at the
\* commit, leaves no order and no order line behind, the cart intact and the
\* session in waiting_for_confirmation with its data
C5_FailureRollsBack ==
    [][ ( /\ Handled("confirm_order")
          /\ get_cart_items(last'.user) # {}
          /\ last'.result # "created" ) =>
          /\ last'.result = "raised"
          /\ UNCHANGED <<orders, order_items, cart_items, fsm_data>>
          /\ \E u \in Users : /\ u = last'.user
                               /\ fsm_state'[u] = waiting_for_confirmation
                               /\ confirm_order_filter(u, "checkout:confirm")'
      ]_vars

\* C5 witness: create_order raised over a non-empty cart and the session is
\* still in waiting_for_confirmation
C5_Witness ==
    /\ last.handler = "confirm_order"
    /\ last.result = "raised"
    /\ get_cart_items(last.user) # {}
    /\ fsm_state[last.user] = waiting_for_confirmation

\* the validator of the step of handler h rejects the stripped text
Rejects(h, text) ==
    /\ text # NoText
    /\ \/ h = "process_name" /\ ~validate_name(strip(text))[1]
       \/ h = "process_phone" /\ ~validate_phone(strip(text))[1]
       \/ h = "process_address" /\ ~validate_address(strip(text))[1]
       \/ h = "process_comment" /\ ~validate_comment(strip(text))[1]

\* C6: a text that the validator of waiting_for_name, waiting_for_phone,
\* waiting_for_address or waiting_for_comment rejects leaves the state and
\* every stored field of the session as they were, and changes no cart and
\* no order
C6_RejectedInputChangesNothing ==
    [][ ( /\ last' # last
          /\ last'.kind = "message"
          /\ last'.handler # "none"
          /\ Rejects(last'.handler, last'.text) ) =>
          UNCHANGED <<fsm_state, fsm_data, cart_items, orders, order_items>>
      ]_vars

\* C6 witness: a too short address was sent in waiting_for_address by a
\* session that already stored an address, and the session is as before
C6_Witness ==
    /\ last.handler = "process_address"
    /\ Rejects("process_address", last.text)
    /\ last.before.data.delivery_address # None
    /\ strip(last.text) # last.before.data.delivery_address
    /\ Session(last.user) = last.before

\* C7: start_checkout over an empty cart reports the empty cart and never
\* sets waiting_for_name: state and stored fields are exactly as before
C7_EmptyCartNeverStartsCheckout ==
    [][ (Handled("start_checkout") /\ get_cart_items(last'.user) = {}) =>
          /\ last'.result = "empty_cart"
          /\ UNCHANGED <<fsm_state, fsm_data>>
      ]_vars

\* C7 witness: checkout was pressed over an empty cart by a session waiting
\* for the phone, and the session is as before
C7_Witness ==
    /\ last.handler = "start_checkout"
    /\ last.result = "empty_cart"
    /\ last.before.state = waiting_for_phone
    /\ Session(last.user) = last.before

\* C8: the cancel callback in any state of the dialogue clears the state and
\* every stored field of the session, creates no order and changes no cart
C8_CancelDestroysSession ==
    [][ (last' # last /\ last'.data = "checkout:cancel"
                      /\ fsm_state[last'.user] \in OrderStates) =>
          /\ last'.handler = "cancel_checkout"
          /\ fsm_state'[last'.user] = NoState
          /\ fsm_data'[last'.user] = EmptyData
          /\ UNCHANGED <<orders, order_items, cart_items>>
      ]_vars

\* C8 witness: a session that waited for confirmation with every field
\* stored was cancelled
C8_Witness ==
    /\ last.handler = "cancel_checkout"
    /\ last.before.state = waiting_for_confirmation
    /\ last.before.data.delivery_address # None
    /\ last.before.data.comment # None
    /\ fsm_state[last.user] = NoState
    /\ get_cart_items(last.user) # {}

\* C9: in waiting_for_delivery_type the choice of courier leads to
\* waiting_for_address; the choice of pickup leads to waiting_for_comment
\* with the address set to None, whatever address was stored before
C9_DeliveryTypeBranches ==
    [][ ( /\ last' # last
          /\ fsm_state[last'.user] = waiting_for_delivery_type
          /\ last'.data \in {"delivery:courier", "delivery:pickup"} ) =>
          /\ last'.handler = "process_delivery_type"
          /\ last'.data = "delivery:courier" =>
                /\ fsm_state'[last'.user] = waiting_for_address
                /\ fsm_data'[last'.user].delivery_type = COURIER
          /\ last'.data = "delivery:pickup" =>
                /\ fsm_state'[last'.user] = waiting_for_comment
                /\ fsm_data'[last'.user].delivery_type = PICKUP
                /\ fsm_data'[last'.user].delivery_address = None
      ]_vars

\* C9 witness: pickup was chosen by a session that had stored an address
C9_Witness ==
    /\ last.handler = "process_delivery_type"
    /\ last.data = "delivery:pickup"
    /\ last.before.data.delivery_address # None
    /\ fsm_state[last.user] = waiting_for_comment
    /\ fsm_data[last.user].delivery_address = None

\* C10: after an order is created or the dialogue is cancelled the session
\* is gone: no callback and no message of the dialogue is taken until
\* start_checkout, and the session start_checkout opens holds no field of
\* the old one
C10_SessionGoneAfterEnd ==
    [][ /\ ( /\ last' # last
             /\ \/ last'.handler = "confirm_order" /\ last'.result = "created"
                \/ last'.handler = "cancel_checkout" ) =>
              /\ fsm_state'[last'.user] = NoState
              /\ fsm_data'[last'.user] = EmptyData
        /\ (last' # last /\ fsm_state[last'.user] = NoState) =>
              /\ fsm_data[last'.user] = EmptyData
              /\ IF last'.handler = "start_checkout" /\ last'.result = "ok"
                 THEN /\ fsm_state'[last'.user] = waiting_for_name
                      /\ fsm_data'[last'.user] = EmptyData
                 ELSE /\ last'.handler \in {"none", "start_checkout", "cancel_checkout"}
                      /\ fsm_state'[last'.user] = NoState
                      /\ UNCHANGED <<fsm_data, orders, order_items, cart_items>>
      ]_vars

\* C10 witness: after an order was created the buyer filled the cart and
\* pressed checkout again; the new session is in waiting_for_name and empty
C10_Witness ==
    /\ orders # {}
    /\ last.handler = "start_checkout"
    /\ last.before.state = NoState
    /\ fsm_state[last.user] = waiting_for_name
    /\ fsm_data[last.user] = EmptyData

\* C11: in every state of a session a later field is never stored while an
\* earlier required one is absent: phone needs name, delivery type needs
\* phone, address and comment need delivery type; and a session in
\* waiting_for_confirmation has name, phone and delivery type
C11_FieldsFilledInOrder ==
    \A u \in Users :
        LET data == fsm_data[u] IN
        /\ data.customer_phone # None => data.customer_name # None
        /\ data.delivery_type # NoDelivery => data.customer_phone # None
        /\ data.delivery_address # None => data.delivery_type # NoDelivery
        /\ data.comment # None => data.delivery_type # NoDelivery
        /\ fsm_state[u] = waiting_for_confirmation =>
              /\ data.customer_name # None
              /\ data.customer_phone # None
              /\ data.delivery_type # NoDelivery

\* C11 witness: checkout was started again by a session that had stored
\* every field; the session waits for the name with all of them present
C11_Witness ==
    /\ last.handler = "start_checkout"
    /\ last.result = "ok"
    /\ fsm_state[last.user] = waiting_for_name
    /\ fsm_data[last.user].customer_phone # None
    /\ fsm_data[last.user].delivery_address # None
    /\ fsm_data[last.user].comment # None

\* the lines a cart holds for a (user, product, variant) triple
LinesOf(u, p, v) ==
    {c \in cart_items : c.user_id = u /\ c.product_id = p /\ c.variant_id = v}

\* C15: whatever calls of add_to_cart, update_cart_item_quantity,
\* remove_cart_item and clear_cart were made one at a time, a cart holds at
\* most one line per (user, product, variant), None being a variant value
\* like any other; and add_to_cart on a triple that has a line adds quantity
\* to that line, leaves every other line alone and adds no line
C15_OneLinePerTriple ==
    /\ \A c1, c2 \in cart_items :
          ( /\ c1.user_id = c2.user_id
            /\ c1.product_id = c2.product_id
            /\ c1.variant_id = c2.variant_id ) => c1 = c2
    /\ \A u \in Users, p \in ProductIds, v \in VariantIds, q \in {1, 2} :
          LinesOf(u, p, v) # {} =>
              LET after == cart_add_to_cart(u, p, v, q)
              IN /\ Cardinality(after) = Cardinality(cart_items)
                 /\ \A c \in cart_items :
                       [c EXCEPT !.quantity =
                            IF c \in LinesOf(u, p, v) THEN @ + q ELSE @] \in after

\* C15 witness: the buyer's cart holds product 1 twice, once without variant
\* with the quantity added up to 2, once with variant 1
C15_Witness ==
    \E c1, c2 \in cart_items :
        /\ c1.user_id = 1 /\ c2.user_id = 1
        /\ c1.product_id = 1 /\ c2.product_id = 1
        /\ c1.variant_id = NoVariant /\ c2.variant_id = 1
        /\ c1.quantity = 2

\* quantity times effective price of the line of a triple, if its product
\* is active; 0 without such a line
ActiveAmount(u, p, v) ==
    IF LinesOf(u, p, v) # {} /\ products[p].is_active
    THEN effective_price(products[p]) * (CHOOSE c \in LinesOf(u, p, v) : TRUE).quantity
    ELSE 0

\* C16: the total of a cart is the sum of effective price times quantity
\* over the lines of active products; a line of an inactive product adds
\* nothing
C16_TotalOverActiveLines ==
    \A u \in Users :
        get_cart_total(u) =
            ActiveAmount(u, 1, NoVariant) + ActiveAmount(u, 1, 1)
            + ActiveAmount(u, 2, NoVariant) + ActiveAmount(u, 2, 1)

\* C16 witness: the buyer's cart holds a line of inactive product 1 and a
\* line of active product 2, and the total is that of product 2 alone
C16_Witness ==
    /\ ~products[1].is_active
    /\ LinesOf(1, 1, NoVariant) # {}
    /\ LinesOf(1, 2, NoVariant) # {}
    /\ Cardinality(get_cart_items(1)) = 2
    /\ get_cart_total(1) > 0

\* C17: the effective price is the discount price when there is one and it
\* is lower than the base price, and the base price otherwise
C17_EffectivePriceIsLower ==
    \A p \in ProductIds :
        effective_price(products[p]) =
            IF /\ products[p].discount_price # NoDiscount
               /\ products[p].discount_price < products[p].price
            THEN products[p].discount_price
            ELSE products[p].price

\* C12: a change of a product's price, discount price or active flag leaves
\* every order and every order line as stored: price_at_purchase, subtotal
\* and total_amount of what was ordered before do not follow the product
C12_OrderPricesFrozen ==
    [][ products' # products =>
          /\ orders' = orders
          /\ order_items' = order_items
      ]_vars

\* C12 witness: an order line holds a price that the product no longer has
C12_Witness ==
    \E i \in order_items :
        /\ i.price_at_purchase # effective_price(products[i.product_id])
        /\ \E o \in orders : o.id = i.order_id /\ o.total_amount = i.subtotal

\* the sum of the subtotals of order lines
RECURSIVE SumOfSubtotals(_)
SumOfSubtotals(items) ==
    IF items = {} THEN 0
    ELSE LET x == CHOOSE y \in items : TRUE
         IN x.subtotal + SumOfSubtotals(items \ {x})

OrdersOfDay(day) == {o \in orders : o.order_number.day = day}

\* C14: when orders are created one after another the counter of a new
\* number is the count of the orders of that day plus one, written with
\* three digits: within a day the counters strictly increase, and the first
\* order after the date changed has counter 001
C14_CounterPerDay ==
    [][ \A o \in orders' \ orders :
          /\ o.order_number.day = today
          /\ decimal_value(o.order_number.counter) = Cardinality(OrdersOfDay(today)) + 1
          /\ Len(o.order_number.counter) = 3
          /\ \A e \in OrdersOfDay(today) :
                decimal_value(e.order_number.counter) < decimal_value(o.order_number.counter)
          /\ OrdersOfDay(today) = {} => o.order_number.counter = <<"0", "0", "1">>
      ]_vars

\* C14 witness: two orders of day 1 numbered 001 and 002, then the first
\* order of day 2 numbered 001
C14_Witness ==
    /\ today = 2
    /\ {o.order_number.counter : o \in OrdersOfDay(1)} = {<<"0", "0", "1">>, <<"0", "0", "2">>}
    /\ {o.order_number.counter : o \in OrdersOfDay(2)} = {<<"0", "0", "1">>}

\* C13: no two stored orders have the same order number, also when the
\* create_order calls of two users interleave on the same day and each counts
\* the orders of the day before the other has committed
C13_OrderNumbersDistinct ==
    \A o1 \in orders, o2 \in orders :
        o1.order_number = o2.order_number => o1 = o2

\* a call has counted the orders of the day and holds a number that the call
\* of the other user, which counted at the same time, has stored since
C13_Witness ==
    \E u \in Users :
        /\ txn[u].pc = "read"
        /\ \E o \in orders :
              /\ o.user_id # u
              /\ o.order_number = txn[u].order[1].order_number

\* the status that follows a status in the lifecycle of an order
NextInLifecycle ==
    {<<STATUS_NEW, STATUS_PROCESSING>>, <<STATUS_PROCESSING, STATUS_CONFIRMED>>,
     <<STATUS_CONFIRMED, STATUS_PREPARING>>, <<STATUS_PREPARING, STATUS_READY>>,
     <<STATUS_READY, STATUS_DELIVERING>>, <<STATUS_DELIVERING, STATUS_DELIVERED>>}

TerminalStatuses == {STATUS_DELIVERED, STATUS_CANCELLED}

\* C19: the status of an order changes only to the next status of the
\* lifecycle, or to CANCELLED from a status that is not terminal; an order
\* that is DELIVERED or CANCELLED keeps its status
C19_StatusFollowsLifecycle ==
    [][\A o \in orders : \A n \in orders' :
          n.id = o.id /\ n.status # o.status =>
              /\ o.status \notin TerminalStatuses
              /\ \/ <<o.status, n.status>> \in NextInLifecycle
                 \/ n.status = STATUS_CANCELLED]_vars

\* +D (DDD) DDD-DD-DD: the places of the digits, and the text they stand in
PhoneDigitPlaces == {2, 5, 6, 7, 10, 11, 12, 14, 15, 17, 18}

HasPhoneShape(s) ==
    /\ Len(s) = 18
    /\ s[1] = "+" /\ s[3] = " " /\ s[4] = "(" /\ s[8] = ")" /\ s[9] = " "
    /\ s[13] = "-" /\ s[16] = "-"
    /\ \A i \in PhoneDigitPlaces : IsDigit(s[i])

\* C20: the text validate_phone returns for an input it accepts has the
\* shape +D (DDD) DDD-DD-DD, holds exactly 11 digits, and the first is 7
C20_AcceptedPhoneShape ==
    last.handler = "process_phone" =>
        LET result == validate_phone(last.text)
        IN result[1] =>
              /\ HasPhoneShape(result[2])
              /\ Len(SelectSeq(result[2], IsDigit)) = PhoneDigits
              /\ result[2][2] = "7"

\* a number of ten digits without the leading 7 was sent in
\* waiting_for_phone, was accepted, and the session stores what
\* validate_phone returned for it
C20_Witness ==
    /\ last.handler = "process_phone"
    /\ last.text[1] \notin {"+", "7", "8"}
    /\ validate_phone(last.text)[1]
    /\ fsm_data[last.user].customer_phone = validate_phone(last.text)[2]
    /\ fsm_state[last.user] = waiting_for_delivery_type

\* C21: validate_phone accepts every text it returned for an accepted input,
\* and returns that text unchanged
C21_PhoneIdempotent ==
    last.handler = "process_phone" =>
        LET result == validate_phone(last.text)
        IN result[1] => validate_phone(result[2]) = <<TRUE, result[2]>>

\* a number dialled with a leading 8 was accepted, the session stores the
\* text returned for it, and that text differs from what was sent
C21_Witness ==
    /\ last.handler = "process_phone"
    /\ last.text[1] = "8"
    /\ validate_phone(last.text)[1]
    /\ validate_phone(last.text)[2] # last.text
    /\ fsm_data[last.user].customer_phone = validate_phone(last.text)[2]
    /\ validate_phone(fsm_data[last.user].customer_phone)[1]

\* C22: a step that adds a line with a variant or raises the quantity of
\* such a line leaves the line with no more than the variant has in stock;
\* what would exceed the stock is refused, the cart stays as it was
C22_QuantityWithinStock ==
    [][\A n \in cart_items' :
          ( /\ n.variant_id # NoVariant
            /\ \A c \in cart_items : c.id = n.id => c.quantity < n.quantity ) =>
              n.quantity <= variants'[n.variant_id].quantity]_vars

\* C23: a step that creates an order leaves the stock of every variant as
\* it was, and the order has a line with the quantity of each cart line it
\* was made from, whatever the variant has in stock
C23_CreateOrderIgnoresStock ==
    [][orders' # orders =>
          /\ variants' = variants
          /\ \A c \in cart_items \ cart_items' :
                \E i \in order_items' \ order_items :
                    /\ i.product_id = c.product_id
                    /\ i.variant_id = c.variant_id
                    /\ i.quantity = c.quantity]_vars

\* an order holds a line of a variant with a quantity larger than any stock
\* the variant ever had
C23_Witness ==
    \E o \in orders, i \in order_items :
        /\ i.order_id = o.id
        /\ i.variant_id # NoVariant
        /\ i.quantity > MaxStock
        /\ variants[i.variant_id].quantity <= MaxStock

\* the quantities update_cart_item_quantity is asked to set
SetQuantities == (0 - 1)..MaxCartQty

\* C24: update_cart_item_quantity on a line of the user deletes the line when
\* the quantity is zero or less and sets the quantity of the line to the
\* value given when it is positive; every other line of every cart stays
C24_SetQuantity ==
    \A c \in cart_items, q \in SetQuantities :
        LET after == cart_update_cart_item_quantity(c.id, c.user_id, q)
        IN IF q <= 0
           THEN after = cart_items \ {c}
           ELSE after = (cart_items \ {c}) \cup {[c EXCEPT !.quantity = q]}

\* both users have a line and the buyer has a second one with quantity 2:
\* setting that one to zero deletes it alone, and asked by the user who does
\* not own the line the update changes nothing
C24_Witness ==
    /\ \E c \in cart_items : c.user_id = 2
    /\ \E c1, c2 \in cart_items :
          /\ c1.user_id = 1 /\ c2.user_id = 1 /\ c1.id # c2.id
          /\ c1.product_id = 2 /\ c1.quantity = 1
          /\ c2.quantity = 2
          /\ cart_update_cart_item_quantity(c2.id, 1, 0) = cart_items \ {c2}
          /\ cart_update_cart_item_quantity(c1.id, 2, 0) = cart_items

\* C25: every cart line has a quantity of at least 1, whatever calls of
\* add_to_cart (with any quantity), update_cart_item_quantity,
\* remove_cart_item, clear_cart and create_order were made
C25_QuantityAtLeastOne ==
    \A c \in cart_items : c.quantity >= 1

\* what a step of the dialogue stores: the stored fields of the user after
\* the update the handler took, given the fields before
StoredBy(handler, event, data) ==
    CASE handler = "process_name" ->
             [data EXCEPT !.customer_name = strip(event.text)]
      [] handler = "process_phone" ->
             [data EXCEPT !.customer_phone = validate_phone(event.text)[2]]
      [] handler = "process_delivery_type" ->
             IF event.data = "delivery:courier"
             THEN [data EXCEPT !.delivery_type = COURIER]
             ELSE [data EXCEPT !.delivery_type = PICKUP, !.delivery_address = None]
      [] handler = "process_address" ->
             [data EXCEPT !.delivery_address = strip(event.text)]
      [] handler = "process_comment" ->
             [data EXCEPT !.comment = strip(event.text)]
      [] handler = "skip_comment" -> [data EXCEPT !.comment = None]
      [] handler \in {"confirm_order", "cancel_checkout"} -> EmptyData
      [] OTHER -> data

\* C26: the order created on confirm has status NEW and the name, phone,
\* delivery type, address and comment the session holds when confirm is
\* handled; a stored field changes only by the step of the dialogue that
\* asks for it, which stores what was just entered, so that the session
\* holds the values of the most recent pass; with pickup the address is
\* absent, and after skip the comment is absent
C26_OrderCarriesSessionData ==
    [][ /\ (Handled("confirm_order") /\ last'.result = "created") =>
              \E o \in orders' :
                  /\ orders' = orders \cup {o} /\ o \notin orders
                  /\ o.status = STATUS_NEW
                  /\ o.user_id = last'.user
                  /\ o.customer_name = last'.before.data.customer_name
                  /\ o.customer_phone = last'.before.data.customer_phone
                  /\ o.delivery_type = last'.before.data.delivery_type
                  /\ o.delivery_address = last'.before.data.delivery_address
                  /\ o.comment = last'.before.data.comment
                  /\ o.delivery_type = PICKUP => o.delivery_address = None
                  /\ o.customer_name # None /\ o.customer_phone # None
        /\ \A u \in Users :
              fsm_data'[u] # fsm_data[u] =>
                  /\ last' # last /\ last'.user = u
                  /\ fsm_data'[u] = StoredBy(last'.handler, last', fsm_data[u])
      ]_vars

\* the order of a courier delivery was created on confirm with the address
\* and the comment the session held
C26_Witness ==
    /\ last.handler = "confirm_order" /\ last.result = "created"
    /\ \E o \in orders :
          /\ o.delivery_type = COURIER
          /\ o.delivery_address # None /\ o.delivery_address = last.before.data.delivery_address
          /\ o.comment # None /\ o.comment = last.before.data.comment
          /\ o.customer_name = last.before.data.customer_name

\* C27: in waiting_for_comment the skip button leads to
\* waiting_for_confirmation with the comment absent, also when a comment of
\* an earlier pass was stored; a comment that validate_comment accepts leads
\* there too and is stored; the other fields stay
C27_CommentOrSkipConfirms ==
    [][ /\ Handled("skip_comment") =>
              /\ last'.before.state = waiting_for_comment
              /\ fsm_state'[last'.user] = waiting_for_confirmation
              /\ fsm_data'[last'.user] = [last'.before.data EXCEPT !.comment = None]
        /\ ( /\ Handled("process_comment")
             /\ last'.text # NoText
             /\ validate_comment(strip(last'.text))[1] ) =>
              /\ last'.before.state = waiting_for_comment
              /\ fsm_state'[last'.user] = waiting_for_confirmation
              /\ fsm_data'[last'.user] =
                     [last'.before.data EXCEPT !.comment = strip(last'.text)]
      ]_vars

\* skip was pressed by a session that held the comment of an earlier pass:
\* the session is in waiting_for_confirmation and the comment is absent
C27_Witness ==
    /\ last.handler = "skip_comment"
    /\ last.before.data.comment # None
    /\ last.before.data.comment # <<>>
    /\ fsm_state[last.user] = waiting_for_confirmation
    /\ fsm_data[last.user].comment = None

\* the update taken last was a message the handler accepted
Accepted(h) == Handled(h) /\ last'.text # NoText /\ ~Rejects(h, last'.text)

\* how a session comes into a state of the dialogue other than
\* waiting_for_name: from which state and by which update
EntersBy(u, state) ==
    CASE state = waiting_for_phone ->
             \/ fsm_state[u] = waiting_for_name /\ Accepted("process_name")
             \/ fsm_state[u] = waiting_for_delivery_type /\ Handled("back_to_phone")
      [] state = waiting_for_delivery_type ->
             \/ fsm_state[u] = waiting_for_phone /\ Accepted("process_phone")
             \/ /\ fsm_state[u] = waiting_for_comment
                /\ Handled("back_to_delivery_or_address")
                /\ fsm_data[u].delivery_type # COURIER
      [] state = waiting_for_address ->
             \/ /\ fsm_state[u] = waiting_for_delivery_type
                /\ Handled("process_delivery_type")
                /\ fsm_data'[u].delivery_type = COURIER
             \/ /\ fsm_state[u] = waiting_for_comment
                /\ Handled("back_to_delivery_or_address")
                /\ fsm_data[u].delivery_type = COURIER
      [] state = waiting_for_comment ->
             \/ /\ fsm_state[u] = waiting_for_delivery_type
                /\ Handled("process_delivery_type")
                /\ fsm_data'[u].delivery_type # COURIER
             \/ /\ fsm_state[u] = waiting_for_address
                /\ Accepted("process_address")
                /\ fsm_data[u].delivery_type = COURIER
      [] state = waiting_for_confirmation ->
             /\ fsm_state[u] = waiting_for_comment
             /\ Handled("skip_comment") \/ Accepted("process_comment")
      [] OTHER -> TRUE

\* C28: edit in waiting_for_confirmation leads to waiting_for_name, creates
\* no order and leaves the cart; and a session enters a later state of the
\* dialogue only from the state before it with an accepted input (or by
\* back), so that waiting_for_confirmation is reached again only through
\* name, phone, delivery type, address when courier is chosen, and comment
C28_EditRestartsCollection ==
    [][ /\ Handled("edit_order_data") =>
              /\ last'.before.state = waiting_for_confirmation
              /\ fsm_state'[last'.user] = waiting_for_name
              /\ UNCHANGED <<orders, order_items, cart_items>>
        /\ \A u \in Users :
              fsm_state'[u] # fsm_state[u] =>
                  /\ last'.user = u
                  /\ EntersBy(u, fsm_state'[u])
      ]_vars

\* edit was pressed in waiting_for_confirmation: the session is in
\* waiting_for_name with the fields of the pass before, the cart is there and
\* no order was created
C28_Witness ==
    /\ last.handler = "edit_order_data"
    /\ last.before.state = waiting_for_confirmation
    /\ fsm_state[last.user] = waiting_for_name
    /\ fsm_data[last.user].customer_name # None
    /\ get_cart_items(last.user) # {}
    /\ orders = {}

\* C29: the back button leads from waiting_for_delivery_type to
\* waiting_for_phone, and from waiting_for_comment to waiting_for_address
\* when courier is stored and to waiting_for_delivery_type otherwise; the
\* stored fields stay as they are; pressed in waiting_for_name,
\* waiting_for_phone, waiting_for_address or waiting_for_confirmation it
\* changes nothing
C29_BackStepsAndKeepsData ==
    [][ ( /\ last' # last
          /\ last'.kind = "callback"
          /\ last'.data = "checkout:back" ) =>
          LET u == last'.user
              before == last'.before
          IN /\ fsm_data'[u] = before.data
             /\ UNCHANGED <<cart_items, orders, order_items>>
             /\ fsm_state'[u] =
                   IF before.state = waiting_for_delivery_type
                   THEN waiting_for_phone
                   ELSE IF before.state = waiting_for_comment
                   THEN IF before.data.delivery_type = COURIER
                        THEN waiting_for_address
                        ELSE waiting_for_delivery_type
                   ELSE before.state
      ]_vars

\* back was pressed in waiting_for_comment by a session with courier and an
\* address: it is in waiting_for_address and still holds the address
C29_Witness ==
    /\ last.kind = "callback" /\ last.data = "checkout:back"
    /\ last.before.state = waiting_for_comment
    /\ last.before.data.delivery_type = COURIER
    /\ fsm_state[last.user] = waiting_for_address
    /\ fsm_data[last.user].delivery_address # None
    /\ fsm_data[last.user] = last.before.data

\* C30: the order created on confirm is made from the cart as it is when
\* confirm is handled: one line per cart line of that moment, and their sum
\* as the total, whatever the cart was when the confirmation was displayed
C30_OrderFromCartAtConfirm ==
    [][ (Handled("confirm_order") /\ last'.result = "created") =>
          LET cart == {c \in cart_items : c.user_id = last'.user}
          IN \E o \in orders' :
                /\ orders' = orders \cup {o} /\ o \notin orders
                /\ order_items' \ order_items =
                      {[order_id |-> o.id, product_id |-> c.product_id,
                        variant_id |-> c.variant_id, quantity |-> c.quantity,
                        price_at_purchase |-> effective_price(products[c.product_id]),
                        subtotal |-> c.quantity * effective_price(products[c.product_id])] :
                          c \in cart}
                /\ o.total_amount = sum_subtotals(cart)
      ]_vars

\* the confirmation was displayed over a cart of product 1 alone; product 2
\* came into the cart afterwards, and the order created on confirm has a
\* line of product 2 and a total that includes it
C30_Witness ==
    /\ last.handler = "confirm_order" /\ last.result = "created"
    /\ \E o \in orders :
          /\ o.user_id = last.user
          /\ \E i1, i2 \in order_items :
                /\ i1.order_id = o.id /\ i2.order_id = o.id
                /\ i1.product_id = 1 /\ i2.product_id = 2
                /\ o.total_amount >= i1.subtotal + i2.subtotal
                /\ i2.subtotal > 0

\* C31: the counter of every order number is exactly three decimal digits,
\* however many orders of the day there are already
C31_CounterHasThreeDigits ==
    \A o \in orders :
        /\ Len(o.order_number.counter) = 3
        /\ \A i \in 1..Len(o.order_number.counter) :
              o.order_number.counter[i] \in AsciiDigits

\* what the claim says of a raw text: without the characters other than
\* digits and '+' it is an optional '+' and then digits, and these digits,
\* a leading 8 replaced by 7 or 7 put in front when they do not start with
\* 7, are 11 with neither the 2nd nor the 3rd a '0'
PhoneAcceptable(raw) ==
    LET rest == SelectSeq(raw, LAMBDA c : IsDigit(c) \/ c = "+")
        digits == IF rest # <<>> /\ rest[1] = "+" THEN Tail(rest) ELSE rest
        normal == IF digits = <<>> THEN <<>>
                  ELSE IF digits[1] = "8" THEN <<"7">> \o Tail(digits)
                  ELSE IF digits[1] = "7" THEN digits
                  ELSE <<"7">> \o digits
    IN /\ digits # <<>>
       /\ \A i \in 1..Len(digits) : IsDigit(digits[i])
       /\ Len(normal) = 11
       /\ normal[2] # "0" /\ normal[3] # "0"

RejectReasons == {"digits_only", "digit_count", "operator_code"}

\* C32: validate_phone accepts a raw text exactly when the text is
\* acceptable in the sense above, and rejects every other text with a reason;
\* process_phone takes the number exactly when validate_phone accepts it
C32_PhoneAcceptedExactlyWhen ==
    /\ \A raw \in PhoneSamples :
          /\ validate_phone(raw)[1] <=> PhoneAcceptable(raw)
          /\ ~validate_phone(raw)[1] => validate_phone(raw)[2] \in RejectReasons
    /\ last.handler = "process_phone" =>
          /\ last.result = "ok" <=> PhoneAcceptable(last.text)
          /\ last.result # "ok" => last.result \in RejectReasons

\* a number with a zero in the operator code was sent in waiting_for_phone
\* and rejected for that reason, and a number with an inner '+' for its form
C32_Witness ==
    /\ last.handler = "process_phone"
    /\ last.result = "operator_code"
    /\ ~PhoneAcceptable(last.text)
    /\ fsm_state[last.user] = waiting_for_phone
    /\ \E raw \in PhoneSamples :
          /\ validate_phone(raw) = <<FALSE, "digits_only">>
          /\ \E i \in 2..Len(raw) : raw[i] = "+" /\ IsDigit(raw[i - 1])

\* C33: a comment that is empty after trimming counts as no comment: neither
\* a session nor an Order holds the empty text as its comment; a comment
\* longer than 1000 characters after trimming is rejected
C33_EmptyCommentIsAbsent ==
    /\ \A u \in Users : fsm_data[u].comment # <<>>
    /\ \A o \in orders : o.comment # <<>>
    /\ \A text \in CommentInputs :
          Len(strip(text)) > CommentMaxLen => ~validate_comment(text)[1]
    /\ (last.handler = "process_comment" /\ last.text # NoText
          /\ Len(strip(last.text)) > CommentMaxLen) => last.result = "too_long"

\* C34: every Order of the dialogue with courier delivery has an address
\* that validate_address accepts, and every Order with pickup has no
\* address, whatever forward, back, edit, cancel and restart steps came
\* before; the same holds of a session that is past the address step
AddressFits(delivery_type, delivery_address) ==
    /\ delivery_type = COURIER =>
          delivery_address # None /\ validate_address(delivery_address)[1]
    /\ delivery_type = PICKUP => delivery_address = None

C34_AddressFitsDelivery ==
    /\ \A o \in orders :
          /\ o.delivery_type \in {COURIER, PICKUP}
          /\ AddressFits(o.delivery_type, o.delivery_address)
    /\ \A u \in Users :
          fsm_state[u] \in {waiting_for_comment, waiting_for_confirmation} =>
              /\ fsm_data[u].delivery_type \in {COURIER, PICKUP}
              /\ AddressFits(fsm_data[u].delivery_type, fsm_data[u].delivery_address)

\* a courier Order with its address was created by confirm
C34_Witness ==
    /\ last.handler = "confirm_order"
    /\ last.result = "created"
    /\ last.before.data.delivery_type = COURIER
    /\ \E o \in orders :
          /\ o.user_id = last.user
          /\ o.delivery_type = COURIER
          /\ o.delivery_address = last.before.data.delivery_address
          /\ validate_address(o.delivery_address)[1]

\* C35: when two confirm presses of one session are handled interleaved,
\* at most one Order is created and each cart line becomes an OrderItem at
\* most once: a task that stores an Order does so for a session that is
\* still waiting for the confirmation, from cart lines that are still in
\* the cart
C35_OneOrderPerSession ==
    [][ \A task \in Tasks :
          (txn[task].pc = "flushed" /\ txn'[task] = NoCall /\ orders' # orders) =>
              /\ fsm_state[txn[task].order[1].user_id] = waiting_for_confirmation
              /\ txn[task].cart \subseteq cart_items
      ]_vars

\* C36: when add_to_cart or update_cart_item_quantity changes the cart
\* while create_order is between reading the cart and committing, no
\* quantity is lost: every line that is in the user's cart just before the
\* commit is still in the cart afterwards or is in an OrderItem of the new
\* Order with at least its quantity
C36_NoQuantityLost ==
    [][ \A u \in Users :
          (txn[u].pc = "flushed" /\ txn'[u] = NoCall /\ orders' # orders) =>
              \A c \in get_cart_items(u) :
                  \/ c \in cart_items'
                  \/ \E item \in order_items' \ order_items :
                        /\ item.product_id = c.product_id
                        /\ item.variant_id = c.variant_id
                        /\ item.quantity >= c.quantity
      ]_vars

\* the quantity a cart holds of a triple, over all of its lines
RECURSIVE SumOfQuantities(_)
SumOfQuantities(lines) ==
    IF lines = {} THEN 0
    ELSE LET x == CHOOSE y \in lines : TRUE
         IN x.quantity + SumOfQuantities(lines \ {x})

\* C37: two add_to_cart calls for one triple that both look the line up
\* before either commits leave at most one line for the triple, and each
\* commit raises the quantity of the triple by what its call adds
C37_InterleavedAddsAddUp ==
    [][ \A task \in Tasks :
          (txn[task].pc = "looked" /\ txn'[task] = NoCall) =>
              LET call == txn[task].order[1]
                  before == {c \in cart_items : /\ c.user_id = call.user_id
                                                /\ c.product_id = call.product_id
                                                /\ c.variant_id = call.variant_id}
                  after == {c \in cart_items' : /\ c.user_id = call.user_id
                                                /\ c.product_id = call.product_id
                                                /\ c.variant_id = call.variant_id}
              IN /\ Cardinality(after) <= 1
                 /\ SumOfQuantities(after) = SumOfQuantities(before) + call.quantity
      ]_vars

\* C38: in every state each Order has at least one OrderItem and its
\* total_amount is the sum of the subtotals of its OrderItems, also after
\* the price of a product was changed, a product switched off, a product
\* or a variant deleted
C38_OrderKeepsItsItems ==
    \A o \in orders :
        LET items == {i \in order_items : i.order_id = o.id}
        IN /\ items # {}
           /\ o.total_amount = SumOfSubtotals(items)

\* C39: when the cart was emptied after the session reached the
\* confirmation, confirm creates no Order and destroys the session, state
\* tag and fields; a confirm sent after that is not taken by any handler
\* and changes nothing, until checkout is started again
C39_EmptiedCartEndsSession ==
    [][ /\ (Handled("confirm_order") /\ get_cart_items(last'.user) = {}) =>
              /\ last'.result = "none"
              /\ UNCHANGED <<orders, order_items, cart_items>>
              /\ fsm_state'[last'.user] = NoState
              /\ fsm_data'[last'.user] = EmptyData
        /\ ( /\ last' # last
             /\ last'.kind = "callback" /\ last'.data = "checkout:confirm"
             /\ fsm_state[last'.user] = NoState ) =>
              /\ last'.handler = "none"
              /\ UNCHANGED <<fsm_state, fsm_data, orders, order_items, cart_items>>
      ]_vars

\* C39 witness: no order was made yet; the confirm of a filled-in session
\* found the cart empty and left no session behind
C39_Witness ==
    /\ last.handler = "confirm_order"
    /\ last.result = "none"
    /\ last.before.state = waiting_for_confirmation
    /\ last.before.data.customer_name # None
    /\ get_cart_items(last.user) = {}
    /\ orders = {}
    /\ fsm_state[last.user] = NoState
    /\ fsm_data[last.user] = EmptyData

\* C40: the cart operations of one user leave the carts of the others
\* alone: update_cart_item_quantity and remove_cart_item asked by a user for
\* a line of another user find no line and change no cart; clear_cart and
\* create_order of a user delete lines of that user only
C40_CartsAreApart ==
    \A u \in Users :
        LET others == {c \in cart_items : c.user_id # u}
        IN /\ \A c \in others :
                 /\ get_cart_item_by_id(c.id, u) = {}
                 /\ cart_remove_cart_item(c.id, u) = cart_items
                 /\ \A q \in SetQuantities :
                       cart_update_cart_item_quantity(c.id, u, q) = cart_items
           /\ {c \in cart_clear(u) : c.user_id # u} = others
           /\ cart_clear(u) \subseteq cart_items
           /\ \A fault \in Faults :
                 LET left == pickup_order_result(u, fault).db.cart_items
                 IN left \subseteq cart_items /\ {c \in left : c.user_id # u} = others

\* C40 witness: both users have lines, the buyer two; what the other user
\* asks for a line of the buyer changes nothing, and the buyer's clear_cart
\* and create_order leave exactly the other user's line
C40_Witness ==
    /\ Cardinality(get_cart_items(1)) = 2
    /\ Cardinality(get_cart_items(2)) = 1
    /\ \A c \in get_cart_items(1) :
          /\ cart_remove_cart_item(c.id, 2) = cart_items
          /\ cart_update_cart_item_quantity(c.id, 2, 0) = cart_items
    /\ cart_clear(1) = get_cart_items(2)
    /\ pickup_order_result(1, "none").outcome = "created"
    /\ pickup_order_result(1, "none").db.cart_items = get_cart_items(2)

====
